---- MODULE Spec2Model ----
(***************************************************************************)
(* A model of the efc formula calculator: the column address codec         *)
(* (efc/utils.py), the operand value model (efc/rpn_builder/parser/        *)
(* operands.py), the arithmetic function table (efc/rpn/functions.py) and  *)
(* the postfix evaluation engine (efc/rpn_builder/rpn.py).                 *)
(*                                                                         *)
(* Every component has its own variable and its own specification; the     *)
(* variables of the other components stay at their idle value.             *)
(***************************************************************************)
EXTENDS Integers, Sequences, FiniteSets, TLC

VARIABLES codec, rng, sumst, setop, cell, rpn

vars == <<codec, rng, sumst, setop, cell, rpn>>

Idle == [stage |-> "idle"]

----------------------------------------------------------------------------
(* Generic helpers *)

RECURSIVE Reverse(_)
Reverse(s) == IF s = <<>> THEN <<>> ELSE Append(Reverse(Tail(s)), Head(s))

RECURSIVE Pow(_, _)
Pow(b, e) == IF e = 0 THEN 1 ELSE b * Pow(b, e - 1)

SeqsUpTo(S, lo, hi) == UNION {[1..k -> S] : k \in lo..hi}

----------------------------------------------------------------------------
(* Address codec: efc/utils.py *)

\* Largest column index drawn as an input of the codec.
MaxIndex == 750
\* Longest letter string drawn as an input of the codec.
MaxLetters == 2

ascii_uppercase ==
  <<"A", "B", "C", "D", "E", "F", "G", "H", "I", "J", "K", "L", "M",
    "N", "O", "P", "Q", "R", "S", "T", "U", "V", "W", "X", "Y", "Z">>

\* base = len(ascii_uppercase)
base == Len(ascii_uppercase)

\* ascii_uppercase.index(s): the 0-based position of letter s
letter_index(s) == (CHOOSE i \in 1..base : ascii_uppercase[i] = s) - 1

RECURSIVE col_str_sum(_, _)
col_str_sum(col_str, i) ==
  IF i > Len(col_str) THEN 0
  ELSE (letter_index(col_str[i]) + 1) * Pow(base, Len(col_str) - i)
       + col_str_sum(col_str, i + 1)

\* sum((index(s) + 1) * base ** (str_len - i) for i, s in enumerate(col_str, 1))
col_str_to_index(col_str) == col_str_sum(col_str, 1)

\* One pass of the while loop of a col_index_to_str that takes the remainder
\* as the digit without the r == 0 adjustment.
RECURSIVE col_index_loop_plain(_, _)
col_index_loop_plain(i, chars) ==
  IF i = 0 THEN chars
  ELSE LET q == i \div base
           r == i % base
       IN  col_index_loop_plain(q, Append(chars, ascii_uppercase[IF r = 0 THEN 1 ELSE r]))

\* while i: i, r = divmod(i, base); if r == 0: r = base; i -= 1; chars.append(...)
RECURSIVE col_index_loop(_, _)
col_index_loop(i, chars) ==
  IF i = 0 THEN chars
  ELSE LET q == i \div base
           r == i % base
       IN  IF r = 0
           THEN col_index_loop(q - 1, Append(chars, ascii_uppercase[base]))
           ELSE col_index_loop(q, Append(chars, ascii_uppercase[r]))

col_index_to_str_plain(i) == Reverse(col_index_loop_plain(i, <<>>))

\* chars.reverse(); return ''.join(chars)
col_index_to_str(i) == Reverse(col_index_loop(i, <<>>))

Letters == {ascii_uppercase[i] : i \in 1..base}

CodecInit ==
  \/ \E n \in 1..MaxIndex :
       codec = [stage |-> "index", n |-> n, s |-> <<>>, n2 |-> 0, s2 |-> <<>>, calls |-> 0]
  \/ \E s \in SeqsUpTo(Letters, 1, MaxLetters) :
       codec = [stage |-> "letters", n |-> 0, s |-> s, n2 |-> 0, s2 |-> <<>>, calls |-> 0]

\* the two conversions applied to an index: letters of n, then the index of these
IndexToStr ==
  /\ codec.stage = "index"
  /\ codec.calls = 0
  /\ codec' = [codec EXCEPT !.s = col_index_to_str(codec.n), !.calls = 1]
  /\ UNCHANGED <<rng, sumst, setop, cell, rpn>>

StrToIndexBack ==
  /\ codec.stage = "index"
  /\ codec.calls = 1
  /\ codec' = [codec EXCEPT !.n2 = col_str_to_index(codec.s), !.calls = 2]
  /\ UNCHANGED <<rng, sumst, setop, cell, rpn>>

\* the two conversions applied to a letter string: its index, then the letters of it
StrToIndex ==
  /\ codec.stage = "letters"
  /\ codec.calls = 0
  /\ codec' = [codec EXCEPT !.n = col_str_to_index(codec.s), !.calls = 1]
  /\ UNCHANGED <<rng, sumst, setop, cell, rpn>>

IndexToStrBack ==
  /\ codec.stage = "letters"
  /\ codec.calls = 1
  /\ codec' = [codec EXCEPT !.s2 = col_index_to_str(codec.n), !.calls = 2]
  /\ UNCHANGED <<rng, sumst, setop, cell, rpn>>

CodecNext == IndexToStr \/ StrToIndexBack \/ StrToIndex \/ IndexToStrBack

\* the state after construction; the other components are idle
CodecStart == CodecInit /\ rng = Idle /\ sumst = Idle /\ setop = Idle /\ cell = Idle /\ rpn = Idle

SpecCodec ==
  /\ CodecStart
  /\ [][CodecNext]_vars

\* C6: the codec is a bijection between indices n >= 1 and non-empty strings
\* over A-Z: the index of the letters of n is n, the letters of the index of s
\* are s, the letters of an index n >= 1 are a non-empty string over A-Z, and
\* A -> 1, Z -> 26, AA -> 27.
C6_CodecRoundTrip ==
  /\ (codec.stage = "index" /\ codec.calls >= 1) =>
        /\ codec.s \in SeqsUpTo(Letters, 1, Len(codec.s))
        /\ Len(codec.s) >= 1
  /\ (codec.stage = "index" /\ codec.calls = 2) => codec.n2 = codec.n
  /\ (codec.stage = "letters" /\ codec.calls >= 1) =>
        /\ codec.n >= 1
        /\ (codec.s = <<"A">> => codec.n = 1)
        /\ (codec.s = <<"Z">> => codec.n = 26)
        /\ (codec.s = <<"A", "A">> => codec.n = 27)
  /\ (codec.stage = "letters" /\ codec.calls = 2) => codec.s2 = codec.s

\* a two-letter string ending in Z and the index 702 (ZZ) have made the round trip
C6_Witness ==
  \/ codec.stage = "letters" /\ codec.calls = 2 /\ codec.s = <<"A", "Z">> /\ codec.n = 52
  \/ codec.stage = "index" /\ codec.calls = 2 /\ codec.n = 702 /\ codec.s = <<"Z", "Z">>

----------------------------------------------------------------------------
(* Operand kinds: efc/rpn_builder/parser/operands.py *)

\* SimpleOperand(value): value is a raw scalar (see the function table below)
SimpleOperand(value) == [kind |-> "Simple", value |-> value]

\* SingleCellOperand(row, column, ws_name, source)
SingleCellOperand(row, column, ws_name) ==
  [kind |-> "SingleCell", row |-> row, column |-> column, ws_name |-> ws_name]

\* ws_name=None, formula=None
NoName == "<None>"

\* CellRangeOperand(row1, column1, row2, column2, ws_name, source)
CellRangeOperand(row1, column1, row2, column2, ws_name) ==
  [kind |-> "CellRange", row1 |-> row1, column1 |-> column1,
   row2 |-> row2, column2 |-> column2, ws_name |-> ws_name]

\* an ErrorOperand of class cls (ValueErrorOperand, ZeroDivisionErrorOperand, ...)
ErrorOperand(cls, ws_name, formula) ==
  [kind |-> "Error", cls |-> cls, ws_name |-> ws_name, formula |-> formula]

\* ValueErrorOperand(): no worksheet name, no formula
ValueErrorOperand == ErrorOperand("ValueErrorOperand", NoName, NoName)

\* ZeroDivisionErrorOperand()
ZeroDivisionErrorOperand == ErrorOperand("ZeroDivisionErrorOperand", NoName, NoName)

\* WorksheetNotExist(ws_name=ws_name)
WorksheetNotExist(ws_name) == ErrorOperand("WorksheetNotExist", ws_name, NoName)

\* the class attribute string_value of each error class
string_value(cls) ==
  CASE cls = "ErrorOperand" -> "#ERROR!"
    [] cls = "ValueErrorOperand" -> "#VALUE!"
    [] cls = "WorksheetNotExist" -> "#REF!"
    [] cls = "NamedRangeNotExist" -> "#NAME?"
    [] cls = "ZeroDivisionErrorOperand" -> "#DIV/0!"
    [] cls = "NotFoundErrorOperand" -> "#VALUE!"
    [] cls = "FunctionNotSupported" -> "#NAME?"

----------------------------------------------------------------------------
(* CellRangeOperand.get_iter: efc/rpn_builder/parser/operands.py *)

\* Largest row and column of a range bound and of the data source's sheet.
MaxRow == 3
MaxCol == 3

\* An open bound (None in the source); coordinates are 1-based.
None == 0

\* range(a, b + 1)
RECURSIVE range_incl(_, _)
range_incl(a, b) == IF a > b THEN <<>> ELSE <<a>> \o range_incl(a + 1, b)

RECURSIVE Concat(_)
Concat(ss) == IF ss = <<>> THEN <<>> ELSE Head(ss) \o Concat(Tail(ss))

\* the four bounds, an open one taken from the data source
range_row1(r, src) == IF r.row1 = None THEN src.min_row ELSE r.row1
range_row2(r, src) == IF r.row2 = None THEN src.max_row ELSE r.row2
range_column1(r, src) == IF r.column1 = None THEN src.min_column ELSE r.column1
range_column2(r, src) == IF r.column2 = None THEN src.max_column ELSE r.column2

\* a get_iter whose two-dimensional branch walks column by column
get_iter_colmajor(r, src) ==
  LET column1 == range_column1(r, src)
      column2 == range_column2(r, src)
      row1 == range_row1(r, src)
      row2 == range_row2(r, src)
      rows == range_incl(row1, row2)
      cols == range_incl(column1, column2)
  IN  IF row1 = row2
      THEN [i \in 1..Len(cols) |-> SingleCellOperand(row1, cols[i], r.ws_name)]
      ELSE IF column1 = column2
      THEN [i \in 1..Len(rows) |-> SingleCellOperand(rows[i], column1, r.ws_name)]
      ELSE Concat([j \in 1..Len(cols) |->
                    [i \in 1..Len(rows) |-> SingleCellOperand(rows[i], cols[j], r.ws_name)]])

\* the cells get_iter yields, in the order it yields them
get_iter(r, src) ==
  LET column1 == range_column1(r, src)
      column2 == range_column2(r, src)
      row1 == range_row1(r, src)
      row2 == range_row2(r, src)
      rows == range_incl(row1, row2)
      cols == range_incl(column1, column2)
  IN  IF row1 = row2
      THEN [i \in 1..Len(cols) |-> SingleCellOperand(row1, cols[i], r.ws_name)]
      ELSE IF column1 = column2
      THEN [i \in 1..Len(rows) |-> SingleCellOperand(rows[i], column1, r.ws_name)]
      ELSE Concat([i \in 1..Len(rows) |->
                    [j \in 1..Len(cols) |-> SingleCellOperand(rows[i], cols[j], r.ws_name)]])

\* the sheets' extents a data source can report
SheetExtents ==
  {[min_row |-> a, max_row |-> b, min_column |-> c, max_column |-> d] :
     a \in 1..MaxRow, b \in 1..MaxRow, c \in 1..MaxCol, d \in 1..MaxCol}

RangeInit ==
  \E row1 \in {None} \cup 1..MaxRow, row2 \in {None} \cup 1..MaxRow,
     column1 \in {None} \cup 1..MaxCol, column2 \in {None} \cup 1..MaxCol,
     src \in {e \in SheetExtents : e.min_row <= e.max_row /\ e.min_column <= e.max_column} :
    rng = [stage |-> "new", ws_name |-> "Sheet1",
           row1 |-> row1, column1 |-> column1, row2 |-> row2, column2 |-> column2,
           src |-> src, cells |-> <<>>]

\* list(iter(range)): the whole iteration of the range
Iterate ==
  /\ rng.stage = "new"
  /\ rng' = [rng EXCEPT !.stage = "iterated", !.cells = get_iter(rng, rng.src)]
  /\ UNCHANGED <<codec, sumst, setop, cell, rpn>>

RangeNext == Iterate

\* the state after construction; the other components are idle
RangeStart == RangeInit /\ codec = Idle /\ sumst = Idle /\ setop = Idle /\ cell = Idle /\ rpn = Idle

SpecRange ==
  /\ RangeStart
  /\ [][RangeNext]_vars

\* C7: a range with row1 <= row2 and column1 <= column2 (open bounds taken
\* from the data source) yields one SingleCell per address of the rectangle,
\* each once, columns ascending for a single row, rows ascending for a single
\* column and row-major otherwise.
C7_RangeRowMajor ==
  rng.stage = "iterated" =>
    LET r1 == IF rng.row1 = None THEN rng.src.min_row ELSE rng.row1
        r2 == IF rng.row2 = None THEN rng.src.max_row ELSE rng.row2
        c1 == IF rng.column1 = None THEN rng.src.min_column ELSE rng.column1
        c2 == IF rng.column2 = None THEN rng.src.max_column ELSE rng.column2
        out == rng.cells
    IN  (r1 <= r2 /\ c1 <= c2) =>
          /\ Len(out) = (r2 - r1 + 1) * (c2 - c1 + 1)
          /\ \A r \in r1..r2, c \in c1..c2 :
               \E i \in 1..Len(out) :
                 out[i] = [kind |-> "SingleCell", row |-> r, column |-> c, ws_name |-> rng.ws_name]
          /\ \A i \in 1..Len(out), j \in 1..Len(out) :
               i < j =>
                 \/ out[i].row < out[j].row
                 \/ out[i].row = out[j].row /\ out[i].column < out[j].column
          /\ (r1 = r2) => \A i \in 1..Len(out) : out[i].column = c1 + i - 1
          /\ (c1 = c2) => \A i \in 1..Len(out) : out[i].row = r1 + i - 1

\* a two-dimensional range with an open bound has been iterated
C7_Witness ==
  /\ rng.stage = "iterated"
  /\ rng.row1 = 1 /\ rng.row2 = None /\ rng.src.max_row = 2
  /\ rng.column1 = 2 /\ rng.column2 = 3
  /\ Len(rng.cells) = 4
  /\ rng.cells[2].row = 1 /\ rng.cells[2].column = 3

----------------------------------------------------------------------------
(* Raw values: the Python values operands resolve to.  A number is an exact *)
(* fraction n/d in lowest terms with d > 0; text carries its characters.    *)

RECURSIVE GCD(_, _)
GCD(a, b) == IF b = 0 THEN a ELSE GCD(b, a % b)

Abs(x) == IF x < 0 THEN -x ELSE x

Frac(n, d) ==
  LET g == GCD(Abs(n), Abs(d))
      sg == IF d < 0 THEN -1 ELSE 1
  IN  [t |-> "num", n |-> sg * (n \div g), d |-> sg * (d \div g), s |-> ""]

Num(n) == Frac(n, 1)
\* None, the value of a blank cell
Blank == [t |-> "none", n |-> 0, d |-> 1, s |-> ""]
Text(s) == [t |-> "str", n |-> 0, d |-> 1, s |-> s]
\* a Python list of values
List(items) == [t |-> "list", items |-> items]

\* Python truthiness: `if a`
Truthy(a) ==
  CASE a.t = "num" -> a.n # 0
    [] a.t = "none" -> FALSE
    [] a.t = "str" -> a.s # ""
    [] a.t = "list" -> a.items # <<>>

\* what a call does: it returns a value or raises an exception
Return(v) == [out |-> "return", value |-> v, exc |-> "", error |-> Idle]
Raise(exc) == [out |-> "raise", value |-> Blank, exc |-> exc, error |-> Idle]
\* raise err, an ErrorOperand (the error operands are exceptions too)
RaiseError(err) == [out |-> "raise", value |-> Blank, exc |-> err.cls, error |-> err]

----------------------------------------------------------------------------
(* Arithmetic function table: efc/rpn/functions.py *)

\* a + b: numbers add, text concatenates, anything else is a TypeError
add_func(a, b) ==
  CASE a.t = "num" /\ b.t = "num" -> Return(Frac(a.n * b.d + b.n * a.d, a.d * b.d))
    [] a.t = "str" /\ b.t = "str" -> Return(Text(a.s \o b.s))
    [] OTHER -> Raise("TypeError")

\* a - b
subtract_func(a, b) ==
  IF a.t = "num" /\ b.t = "num"
  THEN Return(Frac(a.n * b.d - b.n * a.d, a.d * b.d))
  ELSE Raise("TypeError")

\* a / b
divide_func(a, b) ==
  IF a.t = "num" /\ b.t = "num"
  THEN IF b.n = 0 THEN Raise("ZeroDivisionError")
       ELSE Return(Frac(a.n * b.d, a.d * b.n))
  ELSE Raise("TypeError")

\* a * b (numbers only: text is never repeated by the operands modelled)
multiply_func(a, b) ==
  IF a.t = "num" /\ b.t = "num"
  THEN Return(Frac(a.n * b.n, a.d * b.d))
  ELSE Raise("TypeError")

\* sum(i for i in row if i): the builtin sum, which starts from the int 0
RECURSIVE builtin_sum_truthy(_, _)
builtin_sum_truthy(row, acc) ==
  IF acc.out = "raise" \/ row = <<>> THEN acc
  ELSE IF ~Truthy(Head(row)) THEN builtin_sum_truthy(Tail(row), acc)
  ELSE IF Head(row).t = "num"
       THEN builtin_sum_truthy(Tail(row), add_func(acc.value, Head(row)))
       ELSE Raise("TypeError")

\* for row in arg: result += sum(i for i in row if i)
RECURSIVE sum_rows(_, _)
sum_rows(rows, acc) ==
  IF acc.out = "raise" \/ rows = <<>> THEN acc
  ELSE IF Head(rows).t \in {"num", "none"} THEN Raise("TypeError")
  ELSE IF Head(rows).t = "str"
       THEN IF Head(rows).s = "" THEN sum_rows(Tail(rows), acc) ELSE Raise("TypeError")
  ELSE LET s == builtin_sum_truthy(Head(rows).items, Return(Num(0)))
       IN  IF s.out = "raise" THEN s
           ELSE sum_rows(Tail(rows), add_func(acc.value, s.value))

\* one pass of the loop over the truthy arguments, with the branch for a list
\* of rows adding the first row only
RECURSIVE sum_loop_first_row(_, _)
sum_loop_first_row(args, acc) ==
  IF acc.out = "raise" \/ args = <<>> THEN acc
  ELSE LET arg == Head(args)
       IN  IF ~Truthy(arg) THEN sum_loop_first_row(Tail(args), acc)
           ELSE IF arg.t = "list"
           THEN IF arg.items[1].t = "list"
                THEN sum_loop_first_row(Tail(args), sum_rows(<<arg.items[1]>>, acc))
                ELSE LET s == builtin_sum_truthy(arg.items, Return(Num(0)))
                     IN  IF s.out = "raise" THEN s
                         ELSE sum_loop_first_row(Tail(args), add_func(acc.value, s.value))
           ELSE sum_loop_first_row(Tail(args), add_func(acc.value, arg))

\* for arg in (a for a in args if a): the three branches of the loop body
RECURSIVE sum_loop(_, _)
sum_loop(args, acc) ==
  IF acc.out = "raise" \/ args = <<>> THEN acc
  ELSE LET arg == Head(args)
       IN  IF ~Truthy(arg) THEN sum_loop(Tail(args), acc)
           ELSE IF arg.t = "list"
           THEN IF arg.items[1].t = "list"
                THEN sum_loop(Tail(args), sum_rows(arg.items, acc))
                ELSE LET s == builtin_sum_truthy(arg.items, Return(Num(0)))
                     IN  IF s.out = "raise" THEN s
                         ELSE sum_loop(Tail(args), add_func(acc.value, s.value))
           ELSE sum_loop(Tail(args), add_func(acc.value, arg))

sum_func_first_row(args) == sum_loop_first_row(args, Return(Num(0)))

\* sum_func(*args): result = 0.0, then the loop
sum_func(args) == sum_loop(args, Return(Num(0)))

----------------------------------------------------------------------------
(* Calls of sum_func: the caller builds an argument list of scalars, lists   *)
(* of scalars and lists of rows, then calls SUM on it.                       *)

\* Largest number of values and lists in one argument list of SUM.
MaxSumNodes == 5

\* the scalars an argument, a list or a row may hold
SumScalars == {Blank, Num(0), Num(1), Num(3)}

RECURSIVE Nodes(_)
Nodes(a) ==
  IF a.t # "list" THEN 1
  ELSE 1 + (LET RECURSIVE Count(_)
                Count(xs) == IF xs = <<>> THEN 0 ELSE Nodes(Head(xs)) + Count(Tail(xs))
            IN  Count(a.items))

SumSize == Nodes(List(sumst.args)) - 1

LastArg == sumst.args[Len(sumst.args)]

WithLastArg(a) == [sumst EXCEPT !.args[Len(sumst.args)] = a]

SumInit == sumst = [stage |-> "args", args |-> <<>>, result |-> Return(Blank)]

\* a scalar argument
ArgScalar ==
  /\ sumst.stage = "args" /\ SumSize < MaxSumNodes
  /\ \E v \in SumScalars : sumst' = [sumst EXCEPT !.args = Append(@, v)]
  /\ UNCHANGED <<codec, rng, setop, cell, rpn>>

\* a list argument, empty so far
ArgList ==
  /\ sumst.stage = "args" /\ SumSize < MaxSumNodes
  /\ sumst' = [sumst EXCEPT !.args = Append(@, List(<<>>))]
  /\ UNCHANGED <<codec, rng, setop, cell, rpn>>

\* one more scalar in the last argument, a list of scalars
ListItem ==
  /\ sumst.stage = "args" /\ SumSize < MaxSumNodes
  /\ sumst.args # <<>> /\ LastArg.t = "list"
  /\ IF LastArg.items = <<>> THEN TRUE ELSE LastArg.items[1].t # "list"
  /\ \E v \in SumScalars : sumst' = WithLastArg(List(Append(LastArg.items, v)))
  /\ UNCHANGED <<codec, rng, setop, cell, rpn>>

\* one more row, empty so far, in the last argument, a list of rows
ListRow ==
  /\ sumst.stage = "args" /\ SumSize < MaxSumNodes
  /\ sumst.args # <<>> /\ LastArg.t = "list"
  /\ IF LastArg.items = <<>> THEN TRUE ELSE LastArg.items[1].t = "list"
  /\ sumst' = WithLastArg(List(Append(LastArg.items, List(<<>>))))
  /\ UNCHANGED <<codec, rng, setop, cell, rpn>>

\* one more scalar in the last row of the last argument
RowItem ==
  /\ sumst.stage = "args" /\ SumSize < MaxSumNodes
  /\ sumst.args # <<>> /\ LastArg.t = "list"
  /\ IF LastArg.items = <<>> THEN FALSE ELSE LastArg.items[1].t = "list"
  /\ \E v \in SumScalars :
       LET k == Len(LastArg.items)
           row == LastArg.items[k]
       IN  sumst' = WithLastArg(List([LastArg.items EXCEPT ![k] = List(Append(row.items, v))]))
  /\ UNCHANGED <<codec, rng, setop, cell, rpn>>

\* SUM(*args)
CallSum ==
  /\ sumst.stage = "args"
  /\ sumst' = [sumst EXCEPT !.stage = "called", !.result = sum_func(sumst.args)]
  /\ UNCHANGED <<codec, rng, setop, cell, rpn>>

SumNext == ArgScalar \/ ArgList \/ ListItem \/ ListRow \/ RowItem \/ CallSum

\* the state after construction; the other components are idle
SumStart == SumInit /\ codec = Idle /\ rng = Idle /\ setop = Idle /\ cell = Idle /\ rpn = Idle

SpecSum ==
  /\ SumStart
  /\ [][SumNext]_vars

\* the total of the truthy numbers found anywhere in a value
RECURSIVE TruthyTotal(_)
TruthyTotal(a) ==
  IF a.t = "list"
  THEN LET RECURSIVE Tot(_)
           Tot(xs) == IF xs = <<>> THEN 0 ELSE TruthyTotal(Head(xs)) + Tot(Tail(xs))
       IN  Tot(a.items)
  ELSE IF a.t = "num" /\ a.n # 0 THEN a.n ELSE 0

\* C8: SUM returns the total, from 0, of the truthy scalars among its
\* arguments, in its list arguments and in the rows of its lists of rows;
\* blank and zero values add nothing; SUM([1, blank, 3]) is 4.
C8_SumTruthyTotal ==
  sumst.stage = "called" =>
    /\ sumst.result.out = "return"
    /\ sumst.result.value = Num(TruthyTotal(List(sumst.args)))
    /\ sumst.args = <<List(<<Num(1), Blank, Num(3)>>)>> => sumst.result.value = Num(4)

\* SUM was called on the list [1, blank, 3]
C8_Witness ==
  /\ sumst.stage = "called"
  /\ sumst.args = <<List(<<Num(1), Blank, Num(3)>>)>>
  /\ sumst.result = Return(Num(4))

----------------------------------------------------------------------------
(* SetOperand, CellSetOperand, SimpleSetOperand:                             *)
(* efc/rpn_builder/parser/operands.py                                        *)

\* Largest number of add calls made on one set.
MaxSetCalls == 3
\* Longest list handed to add_many and add_row.
MaxSetList == 2

\* operands_type of the two set classes, as the kind isinstance accepts
operands_type(set_kind) == IF set_kind = "CellSet" THEN "SingleCell" ELSE "Simple"

\* a check_type that looks at the first element of a list only
check_type_first(set_kind, items, is_list) ==
  IF is_list
  THEN IF items = <<>> THEN TRUE ELSE items[1].kind = operands_type(set_kind)
  ELSE items.kind = operands_type(set_kind)

\* check_type(items): TRUE when it returns, FALSE when it raises ValueErrorOperand
check_type(set_kind, items, is_list) ==
  IF is_list
  THEN ~(\E i \in 1..Len(items) : items[i].kind # operands_type(set_kind))
  ELSE items.kind = operands_type(set_kind)

\* self._items[row], a defaultdict(list): a missing row reads as the empty list
row_of(items, row) == IF row \in DOMAIN items THEN items[row] ELSE <<>>

\* self._items[row] = new, the row created when it was missing
with_row(items, row, new) ==
  [r \in DOMAIN items \cup {row} |-> IF r = row THEN new ELSE items[r]]

SetMax(S) == CHOOSE m \in S : \A x \in S : x <= m

\* add_cell(item, row): the rows after the call, and whether it raised
add_cell(set_kind, rows, item, row) ==
  IF ~check_type(set_kind, item, FALSE)
  THEN [items |-> rows, raised |-> "ValueErrorOperand"]
  ELSE [items |-> with_row(rows, row, Append(row_of(rows, row), item)), raised |-> ""]

\* add_many(items, row)
add_many(set_kind, rows, items, row) ==
  IF ~check_type(set_kind, items, TRUE)
  THEN [items |-> rows, raised |-> "ValueErrorOperand"]
  ELSE [items |-> with_row(rows, row, row_of(rows, row) \o items), raised |-> ""]

\* add_row(items)
add_row(set_kind, rows, items) ==
  IF ~check_type(set_kind, items, TRUE)
  THEN [items |-> rows, raised |-> "ValueErrorOperand"]
  ELSE LET r == IF DOMAIN rows # {} THEN SetMax(DOMAIN rows) + 1 ELSE 1
       IN  add_many(set_kind, rows, items, r)

\* the operands handed to the sets: two scalars, two cells, an error, a range
SetElements ==
  {SimpleOperand(Num(1)), SimpleOperand(Blank),
   SingleCellOperand(1, 1, "Sheet1"), SingleCellOperand(2, 1, "Sheet1"),
   ValueErrorOperand, CellRangeOperand(1, 1, 2, 2, "Sheet1")}

\* the row numbers handed to add_cell and add_many (0 is the default)
SetRows == {0, 2}

EmptyRows == [r \in {} |-> <<>>]

SetInit ==
  \E k \in {"CellSet", "SimpleSet"} :
    setop = [stage |-> "set", set_kind |-> k, items |-> EmptyRows,
             calls |-> 0, raised |-> "", foreign |-> FALSE]

\* one call; foreign records whether an operand of another kind was handed over
SetCall(res, foreign) ==
  setop' = [setop EXCEPT !.items = res.items, !.raised = res.raised,
                         !.calls = @ + 1, !.foreign = foreign]

AddCell ==
  /\ setop.stage = "set" /\ setop.calls < MaxSetCalls
  /\ \E item \in SetElements, row \in SetRows :
       SetCall(add_cell(setop.set_kind, setop.items, item, row),
               item.kind # operands_type(setop.set_kind))
  /\ UNCHANGED <<codec, rng, sumst, cell, rpn>>

AddMany ==
  /\ setop.stage = "set" /\ setop.calls < MaxSetCalls
  /\ \E items \in SeqsUpTo(SetElements, 0, MaxSetList), row \in SetRows :
       SetCall(add_many(setop.set_kind, setop.items, items, row),
               \E i \in 1..Len(items) : items[i].kind # operands_type(setop.set_kind))
  /\ UNCHANGED <<codec, rng, sumst, cell, rpn>>

AddRow ==
  /\ setop.stage = "set" /\ setop.calls < MaxSetCalls
  /\ \E items \in SeqsUpTo(SetElements, 0, MaxSetList) :
       SetCall(add_row(setop.set_kind, setop.items, items),
               \E i \in 1..Len(items) : items[i].kind # operands_type(setop.set_kind))
  /\ UNCHANGED <<codec, rng, sumst, cell, rpn>>

SetNext == AddCell \/ AddMany \/ AddRow

\* the state after construction; the other components are idle
SetStart == SetInit /\ codec = Idle /\ rng = Idle /\ sumst = Idle /\ cell = Idle /\ rpn = Idle

SpecSet ==
  /\ SetStart
  /\ [][SetNext]_vars

\* C9 (state part): every element stored in a set is of the set's element
\* kind, and a call raised the Value-Error exactly when it was handed an
\* operand of another kind.
C9_SetOneKind ==
  setop.stage = "set" =>
    /\ \A r \in DOMAIN setop.items : \A i \in 1..Len(setop.items[r]) :
         setop.items[r][i].kind = (IF setop.set_kind = "CellSet" THEN "SingleCell" ELSE "Simple")
    /\ setop.foreign <=> setop.raised = "ValueErrorOperand"

\* C9 (step part): a call that raises the Value-Error stores nothing and
\* creates no row.
C9_FailedAddStoresNothing ==
  [][(setop.stage = "set" /\ setop'.raised = "ValueErrorOperand")
       => setop'.items = setop.items]_vars

----------------------------------------------------------------------------
(* One SingleCellOperand instance and its memoized value:                    *)
(* CellsOperand.value (a cached_property) and the data source behind it.     *)

\* Largest number of accesses of one operand's value.
MaxAccesses == 3

\* the values the data source may hold at the cell's address
CellValues == {Blank, Num(1), Num(2)}

\* the data source's answers: the worksheets that exist and the value at
\* each address (here the one address of the operand)
SourceStates ==
  {[sheets |-> sh, val |-> [a \in {<<4, 2>>} |-> v]] :
     sh \in {{}, {"Sheet1"}}, v \in CellValues}

\* source.is_ws_exists(ws_name)
is_ws_exists(src, ws_name) == ws_name \in src.sheets

\* source.cell_to_value(row, column, ws_name)
cell_to_value(src, row, column, ws_name) == src.val[<<row, column>>]

\* SingleCellOperand.address_to_value
address_to_value(inst, src) == cell_to_value(src, inst.row, inst.column, inst.ws_name)

\* CellsOperand.value, the function the cached_property wraps: the value, or
\* WorksheetNotExist raised; lookups counts the calls of cell_to_value
cells_value(inst, src) ==
  IF is_ws_exists(src, inst.ws_name)
  THEN [res |-> Return(address_to_value(inst, src)), lookups |-> 1]
  ELSE [res |-> RaiseError(WorksheetNotExist(inst.ws_name)), lookups |-> 0]

\* inst.value read through a property that stores nothing in the instance
get_value_uncached(inst, src) ==
  LET r == cells_value(inst, src)
  IN  [inst |-> inst, res |-> r.res, ws_queries |-> 1, lookups |-> r.lookups]

\* inst.value: the instance __dict__ entry when there is one, else
\* cached_property.__get__, which stores what the function returned
get_value(inst, src) ==
  IF inst.has_value
  THEN [inst |-> inst, res |-> Return(inst.value), ws_queries |-> 0, lookups |-> 0]
  ELSE LET r == cells_value(inst, src)
       IN  IF r.res.out = "return"
           THEN [inst |-> [inst EXCEPT !.has_value = TRUE, !.value = r.res.value],
                 res |-> r.res, ws_queries |-> 1, lookups |-> r.lookups]
           ELSE [inst |-> inst, res |-> r.res, ws_queries |-> 1, lookups |-> 0]

CellInit ==
  \E src \in SourceStates :
    cell = [stage |-> "cell",
            inst |-> [row |-> 4, column |-> 2, ws_name |-> "Sheet1",
                      has_value |-> FALSE, value |-> Blank],
            src |-> src, accesses |-> 0, ws_queries |-> 0, lookups |-> 0,
            last |-> Return(Blank)]

\* one access of the operand's value
GetValue ==
  /\ cell.stage = "cell" /\ cell.accesses < MaxAccesses
  /\ LET g == get_value(cell.inst, cell.src)
     IN  cell' = [cell EXCEPT !.inst = g.inst, !.last = g.res,
                              !.accesses = @ + 1,
                              !.ws_queries = @ + g.ws_queries,
                              !.lookups = @ + g.lookups]
  /\ UNCHANGED <<codec, rng, sumst, setop, rpn>>

\* the data source changes between two accesses
SourceChanges ==
  /\ cell.stage = "cell"
  /\ \E src \in SourceStates \ {cell.src} : cell' = [cell EXCEPT !.src = src]
  /\ UNCHANGED <<codec, rng, sumst, setop, rpn>>

CellNext == GetValue \/ SourceChanges

\* the state after construction; the other components are idle
CellStart == CellInit /\ codec = Idle /\ rng = Idle /\ sumst = Idle /\ setop = Idle /\ rpn = Idle

SpecCell ==
  /\ CellStart
  /\ [][CellNext]_vars

\* C10 as stated: every access after the first one queries nothing and gives
\* the result the access before it gave.
C10_Original ==
  [][(cell.stage = "cell" /\ cell.accesses >= 1 /\ cell'.accesses = cell.accesses + 1)
       => /\ cell'.ws_queries = cell.ws_queries
          /\ cell'.lookups = cell.lookups
          /\ cell'.last = cell.last]_vars

\* C10 (amended): the cell lookup is made at most once, by the first access
\* that finds the worksheet; every access after that one gives the value that
\* access gave and queries nothing, whatever the source holds by then; an
\* access that fails with the worksheet-missing error memoizes nothing and
\* makes no lookup.
C10_CachedAfterFirstSuccess ==
  [][(cell.stage = "cell" /\ cell'.accesses = cell.accesses + 1)
       => /\ cell'.lookups <= 1
          /\ cell.lookups = 1 =>
               /\ cell'.ws_queries = cell.ws_queries
               /\ cell'.lookups = cell.lookups
               /\ cell'.last = Return(cell.inst.value)
               /\ cell'.inst = cell.inst
          /\ cell.lookups = 0 =>
               /\ cell'.ws_queries = cell.ws_queries + 1
               /\ IF "Sheet1" \in cell.src.sheets
                  THEN /\ cell'.lookups = 1
                       /\ cell'.last = Return(cell.src.val[<<4, 2>>])
                       /\ cell'.inst.value = cell.src.val[<<4, 2>>]
                  ELSE /\ cell'.lookups = 0
                       /\ cell'.last.out = "raise"
                       /\ cell'.last.error.cls = "WorksheetNotExist"
                       /\ cell'.inst = cell.inst]_vars

\* the third access returned the memoized 1 although the source holds 2 now
\* and one lookup was made
C10_Witness ==
  /\ cell.stage = "cell" /\ cell.accesses = 3
  /\ cell.lookups = 1 /\ cell.ws_queries = 1
  /\ cell.last = Return(Num(1))
  /\ cell.src.sheets = {"Sheet1"} /\ cell.src.val[<<4, 2>>] = Num(2)

----------------------------------------------------------------------------
(* Resolving operands to numbers: Operand.value, Operand.digit, utils.digit  *)

SetMin(S) == CHOOSE m \in S : \A x \in S : m <= x

\* float(v) on the texts of the model: "7" and "0.5" are numeric, the rest
\* raises ValueError
float_of(s) ==
  CASE s = "7" -> Return(Num(7))
    [] s = "0.5" -> Return(Frac(1, 2))
    [] OTHER -> Raise("ValueError")

\* digit(v): text through float, None to 0, a number as it is
digit(v) ==
  CASE v.t = "str" -> float_of(v.s)
    [] v.t = "none" -> Return(Num(0))
    [] OTHER -> Return(v)

\* operand.value: the scalar's value, the cell's value from the source, and
\* for an error operand the error itself, raised
operand_value(x, src) ==
  CASE x.kind = "Simple" -> Return(x.value)
    [] x.kind = "SingleCell" -> cells_value(x, src).res
    [] x.kind = "Error" -> RaiseError(x)

\* operand.digit: digit(self.value) if self.value else 0; the kinds that are
\* not Operand subclasses have no such attribute
operand_digit(x, src) ==
  IF x.kind \notin {"Simple", "SingleCell", "Error"} THEN Raise("AttributeError")
  ELSE LET v == operand_value(x, src)
       IN  IF v.out = "raise" THEN v
           ELSE IF Truthy(v.value) THEN digit(v.value) ELSE Return(Num(0))

----------------------------------------------------------------------------
(* Operation tokens.  efc/rpn_builder/parser/operations.py is not part of    *)
(* the sources at hand: an operation resolves its arguments to numbers, left *)
(* to right, calls its function of the table and wraps what it returns in a  *)
(* scalar operand.                                                           *)

Operation(f_name, operands_count) ==
  [kind |-> "Operation", f_name |-> f_name, operands_count |-> operands_count]

\* EXCEL_FUNCTIONS[f_name](a, b)
EXCEL_FUNCTIONS(f_name, a, b) ==
  CASE f_name = "+" -> add_func(a, b)
    [] f_name = "-" -> subtract_func(a, b)
    [] f_name = "/" -> divide_func(a, b)
    [] f_name = "*" -> multiply_func(a, b)

\* token.eval(*args)
operation_eval(token, args, src) ==
  LET ds == [i \in 1..Len(args) |-> operand_digit(args[i], src)]
      bad == {i \in 1..Len(args) : ds[i].out = "raise"}
  IN  IF bad # {} THEN ds[SetMin(bad)]
      ELSE LET r == EXCEL_FUNCTIONS(token.f_name, ds[1].value, ds[2].value)
           IN  IF r.out = "raise" THEN r ELSE Return(SimpleOperand(r.value))

\* raise OperandsMissing(f_name, formula)
OperandsMissing(f_name, formula) ==
  [out |-> "raise", value |-> Blank, exc |-> "OperandsMissing",
   error |-> [f_name |-> f_name, formula |-> formula]]

----------------------------------------------------------------------------
(* The evaluation engine: efc/rpn_builder/rpn.py *)

\* isinstance(token, Operand): ranges and sets are not recognised
is_operand_like_operand_only(token) ==
  token.kind \in {"Simple", "SingleCell", "Error"}

\* isinstance(token, OperandLikeObject)
is_operand_like(token) ==
  token.kind \in {"Simple", "SingleCell", "CellRange", "NamedRange", "Error",
                  "CellSet", "SimpleSet", "RPN"}

\* the arguments left as the pops delivered them, top of the stack first
args_as_popped(popped) == popped

\* args.reverse()
args_reverse(popped) == Reverse(popped)

\* a try block that lets the division-by-zero fault through
catch_faults_no_zero_division(r) ==
  IF r.out = "return" THEN [caught |-> TRUE, v |-> r.value, fault |-> Idle]
  ELSE IF r.error # Idle THEN [caught |-> TRUE, v |-> r.error, fault |-> Idle]
  ELSE IF r.exc \in {"TypeError", "ValueError"}
       THEN [caught |-> TRUE, v |-> ValueErrorOperand, fault |-> Idle]
  ELSE [caught |-> FALSE, v |-> Idle, fault |-> r]

\* a try block without the clause for the typed errors: they leave calc
catch_faults_no_error(r) ==
  IF r.out = "return" THEN [caught |-> TRUE, v |-> r.value, fault |-> Idle]
  ELSE IF r.error # Idle THEN [caught |-> FALSE, v |-> Idle, fault |-> r]
  ELSE IF r.exc \in {"TypeError", "ValueError"}
       THEN [caught |-> TRUE, v |-> ValueErrorOperand, fault |-> Idle]
  ELSE IF r.exc = "ZeroDivisionError"
       THEN [caught |-> TRUE, v |-> ZeroDivisionErrorOperand, fault |-> Idle]
  ELSE [caught |-> FALSE, v |-> Idle, fault |-> r]

\* a try block whose last clause takes every other exception for a value error
catch_faults_any_exception(r) ==
  IF r.out = "return" THEN [caught |-> TRUE, v |-> r.value, fault |-> Idle]
  ELSE IF r.error # Idle THEN [caught |-> TRUE, v |-> r.error, fault |-> Idle]
  ELSE IF r.exc = "ZeroDivisionError"
       THEN [caught |-> TRUE, v |-> ZeroDivisionErrorOperand, fault |-> Idle]
  ELSE [caught |-> TRUE, v |-> ValueErrorOperand, fault |-> Idle]

\* try: v = token.eval(*args), with its three except clauses; any other
\* exception leaves calc
catch_faults(r) ==
  IF r.out = "return" THEN [caught |-> TRUE, v |-> r.value, fault |-> Idle]
  ELSE IF r.error # Idle THEN [caught |-> TRUE, v |-> r.error, fault |-> Idle]
  ELSE IF r.exc \in {"TypeError", "ValueError"}
       THEN [caught |-> TRUE, v |-> ValueErrorOperand, fault |-> Idle]
  ELSE IF r.exc = "ZeroDivisionError"
       THEN [caught |-> TRUE, v |-> ZeroDivisionErrorOperand, fault |-> Idle]
  ELSE [caught |-> FALSE, v |-> Idle, fault |-> r]

\* if isinstance(v, ErrorOperand): v.formula = self.formula; the worksheet
\* name is set when the error has none
stamp(v, formula, ws_name) ==
  IF v.kind = "Error"
  THEN [v EXCEPT !.formula = formula,
                 !.ws_name = IF @ = NoName THEN ws_name ELSE @]
  ELSE v

\* an operation reached with too few operands is passed over
missing_operands_skipped(st, token, formula) == st

\* except IndexError: raise OperandsMissing(token.f_name, self.formula); the
\* pops made before it emptied the list
missing_operands(st, token, formula) ==
  [result |-> <<>>, fault |-> OperandsMissing(token.f_name, formula)]

\* the body of the loop of calc for one token; st holds the list result and
\* the exception that left calc, if one did
calc_token(st, token, formula, ws_name, src) ==
  IF st.fault # Idle THEN st
  ELSE IF is_operand_like(token) THEN [st EXCEPT !.result = Append(@, token)]
  ELSE IF token.kind = "Operation"
  THEN LET k == token.operands_count
           n == Len(st.result)
       IN  IF n < k THEN missing_operands(st, token, formula)
           ELSE LET popped == [i \in 1..k |-> st.result[n - i + 1]]
                    args == args_reverse(popped)
                    rest == SubSeq(st.result, 1, n - k)
                    c == catch_faults(operation_eval(token, args, src))
                IN  IF c.caught
                    THEN [result |-> Append(rest, stamp(c.v, formula, ws_name)),
                          fault |-> Idle]
                    ELSE [result |-> rest, fault |-> c.fault]
  ELSE st

\* the loop of calc over the first i tokens
RECURSIVE calc_run(_, _, _, _, _)
calc_run(tokens, i, formula, ws_name, src) ==
  IF i = 0 THEN [result |-> <<>>, fault |-> Idle]
  ELSE calc_token(calc_run(tokens, i - 1, formula, ws_name, src),
                  tokens[i], formula, ws_name, src)

\* a fold that returns the last error of the leftover values
handle_result_last_error(result, ws_name) ==
  LET errs == {i \in 1..Len(result) : result[i].kind = "Error"}
  IN  IF Len(result) = 1 THEN Return(result[1])
      ELSE IF errs # {} THEN Return(result[SetMax(errs)])
      ELSE Return(List(result))

\* a fold that builds the set without the type check
handle_result_unchecked(result, ws_name) ==
  LET errs == {i \in 1..Len(result) : result[i].kind = "Error"}
  IN  IF Len(result) = 1 THEN Return(result[1])
      ELSE IF errs # {} THEN Return(result[SetMin(errs)])
      ELSE IF result = <<>> THEN Raise("IndexError")
      ELSE IF result[1].kind \in {"SingleCell", "Simple"}
      THEN Return([kind |-> IF result[1].kind = "SingleCell" THEN "CellSet" ELSE "SimpleSet",
                   items |-> with_row(EmptyRows, 1, result), ws_name |-> ws_name])
      ELSE Return(List(result))

\* a fold that adds every leftover value as a row of its own
handle_result_row_each(result, ws_name) ==
  LET errs == {i \in 1..Len(result) : result[i].kind = "Error"}
  IN  IF Len(result) = 1 THEN Return(result[1])
      ELSE IF errs # {} THEN Return(result[SetMin(errs)])
      ELSE IF result = <<>> THEN Raise("IndexError")
      ELSE IF result[1].kind \in {"SingleCell", "Simple"}
      THEN LET set_type == IF result[1].kind = "SingleCell" THEN "CellSet" ELSE "SimpleSet"
           IN  IF check_type(set_type, result, TRUE)
               THEN Return([kind |-> set_type, ws_name |-> ws_name,
                            items |-> [i \in 1..Len(result) |-> <<result[i]>>]])
               ELSE Return(ValueErrorOperand)
      ELSE Return(List(result))

\* handle_result(result, ws_name, source)
handle_result(result, ws_name) ==
  LET errs == {i \in 1..Len(result) : result[i].kind = "Error"}
  IN  IF Len(result) = 1 THEN Return(result[1])
      ELSE IF errs # {} THEN Return(result[SetMin(errs)])
      ELSE IF result = <<>> THEN Raise("IndexError")
      ELSE IF result[1].kind \in {"SingleCell", "Simple"}
      THEN LET set_type == IF result[1].kind = "SingleCell" THEN "CellSet" ELSE "SimpleSet"
               r == add_row(set_type, EmptyRows, result)
           IN  IF r.raised = ""
               THEN Return([kind |-> set_type, items |-> r.items, ws_name |-> ws_name])
               ELSE Return(ValueErrorOperand)
      ELSE Return(List(result))

\* calc(ws_name, source): what it returns or raises
calc(tokens, formula, ws_name, src) ==
  LET st == calc_run(tokens, Len(tokens), formula, ws_name, src)
  IN  IF st.fault # Idle THEN st.fault ELSE handle_result(st.result, ws_name)

----------------------------------------------------------------------------
(* An RPN instance: built by append, then evaluated by calc *)

\* Longest postfix sequence of scalars and arithmetic operations.
MaxTokens == 5
\* Longest postfix sequence over every kind of token.
MaxMixedTokens == 4

\* the formula text the RPN was made for
FormulaText == "=F"

\* the data source of the evaluations: one worksheet, one filled cell
CalcSource == [sheets |-> {"Sheet1"}, val |-> [a \in {<<1, 1>>} |-> Num(2)]]

\* the worksheet names calc is called with (None: no worksheet)
CalcSheets == {"Sheet1", NoName}

ArithmeticOperations ==
  {Operation("+", 2), Operation("-", 2), Operation("*", 2), Operation("/", 2)}

\* scalars and binary arithmetic operations
ArithmeticTokens ==
  {SimpleOperand(Num(n)) : n \in 1..4} \cup ArithmeticOperations

\* a token that is neither operand-like nor an operation
Bracket == [kind |-> "Bracket"]

\* every kind of token: numbers, text, a cell of the sheet, a cell of a
\* worksheet that does not exist, a range, an error operand, two operations
MixedTokens ==
  {SimpleOperand(Num(4)), SimpleOperand(Num(0)), SimpleOperand(Text("abc")),
   SingleCellOperand(1, 1, "Sheet1"), SingleCellOperand(1, 1, "Gone"),
   CellRangeOperand(1, 1, 2, 2, "Sheet1"),
   ErrorOperand("FunctionNotSupported", NoName, NoName),
   Operation("/", 2), Operation("+", 2), Bracket}

\* RPN(formula): Array.__init__ and the formula
RpnInit ==
  rpn = [stage |-> "built", array |-> <<>>, pos |-> -1, formula |-> FormulaText,
         ws_name |-> NoName, out |-> Idle]

\* Array.append(v)
append(v, max) ==
  /\ rpn.stage = "built" /\ Len(rpn.array) < max
  /\ rpn' = [rpn EXCEPT !.array = Append(@, v)]
  /\ UNCHANGED <<codec, rng, sumst, setop, cell>>

AppendArithmetic == \E v \in ArithmeticTokens : append(v, MaxTokens)

AppendMixed == \E v \in MixedTokens : append(v, MaxMixedTokens)

\* rpn.calc(ws_name, source), the whole evaluation
calc_call(ws_name) ==
  /\ rpn.stage = "built"
  /\ rpn' = [rpn EXCEPT !.stage = "evaluated", !.ws_name = ws_name,
                        !.out = calc(rpn.array, rpn.formula, ws_name, CalcSource)]
  /\ UNCHANGED <<codec, rng, sumst, setop, cell>>

\* calc on the worksheet of the data source
Calc == calc_call("Sheet1")

\* calc with any of the worksheet names
CalcAnySheet == \E ws_name \in CalcSheets : calc_call(ws_name)

RpnStart == RpnInit /\ codec = Idle /\ rng = Idle /\ sumst = Idle /\ setop = Idle /\ cell = Idle

Next == AppendArithmetic \/ Calc

\* evaluations of sequences of scalars and arithmetic operations
Spec == RpnStart /\ [][Next]_vars

MixedNext == AppendMixed \/ CalcAnySheet

\* evaluations of sequences over every kind of token
SpecMixed == RpnStart /\ [][MixedNext]_vars

\* the states of the loop of calc, from before the first token (at 1) to after
\* the last one (at Len(tokens) + 1)
RECURSIVE calc_trace(_, _, _, _, _)
calc_trace(tokens, i, formula, ws_name, src) ==
  IF i = 0 THEN <<[result |-> <<>>, fault |-> Idle]>>
  ELSE LET t == calc_trace(tokens, i - 1, formula, ws_name, src)
       IN  Append(t, calc_token(t[i], tokens[i], formula, ws_name, src))

\* the loop states of the evaluated sequence
Trace == calc_trace(rpn.array, Len(rpn.array), rpn.formula, rpn.ws_name, CalcSource)

----------------------------------------------------------------------------
(* Claims about the evaluation engine *)

Lit(n) == SimpleOperand(Num(n))

\* v is the number f_name makes of the numbers a and b (a - b, a / b, ...),
\* stated on the fractions by cross-multiplication
IsResultOf(f_name, a, b, v) ==
  /\ v.t = "num" /\ v.d > 0
  /\ CASE f_name = "+" -> v.n * (a.d * b.d) = (a.n * b.d + b.n * a.d) * v.d
       [] f_name = "-" -> v.n * (a.d * b.d) = (a.n * b.d - b.n * a.d) * v.d
       [] f_name = "*" -> v.n * (a.d * b.d) = (a.n * b.n) * v.d
       [] f_name = "/" -> v.n * (a.d * b.n) = (a.n * b.d) * v.d

\* C1: the tokens are consumed left to right; an operand token is pushed; an
\* operation of arity k reached with at least k entries replaces the top k
\* entries by one result and leaves the entries below untouched; the function
\* gets the entries in the order they were pushed, so for numbers a (deeper)
\* and b (top) the result is a op b.  `a b -` is a - b, `1 2 3 * +` is 7,
\* `2 3 + 4 /` is 5/4 and `2 3 4 / +` is 11/4.
C1_LeftToRightInOrder ==
  rpn.stage = "evaluated" =>
   LET tr == Trace
   IN
    /\ \A i \in 1..Len(rpn.array) :
         LET tok == rpn.array[i]
             before == tr[i]
             after == tr[i + 1]
             n == Len(before.result)
         IN  /\ (before.fault = Idle /\ tok.kind # "Operation") =>
                   after = [result |-> Append(before.result, tok), fault |-> Idle]
             /\ (before.fault = Idle /\ tok.kind = "Operation" /\ n >= tok.operands_count) =>
                   /\ after.fault = Idle
                   /\ Len(after.result) = n - tok.operands_count + 1
                   /\ SubSeq(after.result, 1, n - tok.operands_count)
                        = SubSeq(before.result, 1, n - tok.operands_count)
                   /\ LET a == before.result[n - 1]
                          b == before.result[n]
                          v == after.result[n - 1]
                      IN  (a.kind = "Simple" /\ b.kind = "Simple"
                             /\ ~(tok.f_name = "/" /\ b.value.n = 0)) =>
                            /\ v.kind = "Simple"
                            /\ IsResultOf(tok.f_name, a.value, b.value, v.value)
    /\ Len(rpn.array) = 3 =>
         \A a \in 1..4, b \in 1..4 :
           rpn.array = <<Lit(a), Lit(b), Operation("-", 2)>> => rpn.out = Return(Lit(a - b))
    /\ Len(rpn.array) = 5 =>
         /\ rpn.array = <<Lit(1), Lit(2), Lit(3), Operation("*", 2), Operation("+", 2)>>
              => rpn.out = Return(Lit(7))
         /\ rpn.array = <<Lit(2), Lit(3), Operation("+", 2), Lit(4), Operation("/", 2)>>
              => rpn.out = Return(SimpleOperand(Frac(5, 4)))
         /\ rpn.array = <<Lit(2), Lit(3), Lit(4), Operation("/", 2), Operation("+", 2)>>
              => rpn.out = Return(SimpleOperand(Frac(11, 4)))

\* `1 2 3 * +` has been evaluated to 7
C1_Witness ==
  /\ rpn.stage = "evaluated"
  /\ rpn.array = <<Lit(1), Lit(2), Lit(3), Operation("*", 2), Operation("+", 2)>>
  /\ rpn.out = Return(Lit(7))

\* TRUE when the operand resolves to a number of the model without a fault
ResolvesToNumber(x) ==
  \/ x.kind = "Simple" /\ x.value.t = "num"
  \/ x.kind = "SingleCell" /\ x.ws_name = "Sheet1"

\* C2: a division whose divisor is zero does not end the evaluation: its
\* result is the Division-by-Zero error, displayed #DIV/0!, pushed in place of
\* the two arguments, and `x 0 /` alone returns that error.
C2_DivisionByZeroIsAValue ==
  rpn.stage = "evaluated" =>
   LET tr == Trace
   IN
    /\ \A i \in 1..Len(rpn.array) :
         LET tok == rpn.array[i]
             before == tr[i]
             after == tr[i + 1]
             n == Len(before.result)
         IN  (/\ before.fault = Idle /\ tok = Operation("/", 2) /\ n >= 2
              /\ ResolvesToNumber(before.result[n - 1])
              /\ before.result[n] = Lit(0)) =>
               /\ after.fault = Idle
               /\ Len(after.result) = n - 1
               /\ after.result[n - 1].kind = "Error"
               /\ after.result[n - 1].cls = "ZeroDivisionErrorOperand"
               /\ string_value(after.result[n - 1].cls) = "#DIV/0!"
    /\ \A x \in {Lit(4), Lit(0), SingleCellOperand(1, 1, "Sheet1")} :
         rpn.array = <<x, Lit(0), Operation("/", 2)>> =>
           /\ rpn.out.out = "return"
           /\ rpn.out.value = ErrorOperand("ZeroDivisionErrorOperand", rpn.ws_name, rpn.formula)

\* `4 0 /` has been evaluated and returned the Division-by-Zero error
C2_Witness ==
  /\ rpn.stage = "evaluated"
  /\ rpn.array = <<Lit(4), Lit(0), Operation("/", 2)>>
  /\ rpn.out.out = "return"
  /\ rpn.out.value.cls = "ZeroDivisionErrorOperand"

\* C3: when an operation of arity k is reached with fewer than k entries on
\* the stack, calc raises OperandsMissing with that operation's function name
\* and the formula text, and returns nothing.
C3_OperandsMissing ==
  rpn.stage = "evaluated" =>
   LET tr == Trace
   IN
    \A i \in 1..Len(rpn.array) :
      LET tok == rpn.array[i]
          before == tr[i]
      IN  (/\ before.fault = Idle /\ tok.kind = "Operation"
           /\ Len(before.result) < tok.operands_count) =>
            /\ rpn.out.out = "raise"
            /\ rpn.out.exc = "OperandsMissing"
            /\ rpn.out.error = [f_name |-> tok.f_name, formula |-> rpn.formula]

\* an operation was reached with one operand, after an operation that had two
C3_Witness ==
  /\ rpn.stage = "evaluated"
  /\ rpn.array = <<Lit(4), Lit(0), Operation("+", 2), Operation("/", 2)>>
  /\ rpn.out = OperandsMissing("/", FormulaText)

\* the values left when the sequence was consumed
Leftover == calc_run(rpn.array, Len(rpn.array), rpn.formula, rpn.ws_name, CalcSource)

\* C4: when more than one value is left and one of them is an Error, calc
\* returns the first Error in stack order.
C4_FirstErrorWins ==
  rpn.stage = "evaluated" =>
    LET last == Leftover
        left == last.result
    IN  (/\ last.fault = Idle /\ Len(left) > 1
         /\ \E i \in 1..Len(left) : left[i].kind = "Error") =>
          \E i \in 1..Len(left) :
            /\ left[i].kind = "Error"
            /\ \A j \in 1..(i - 1) : left[j].kind # "Error"
            /\ rpn.out = Return(left[i])

\* two different errors are left, and the first one is returned
C4_Witness ==
  /\ rpn.stage = "evaluated"
  /\ Leftover.fault = Idle /\ Len(Leftover.result) = 2
  /\ Leftover.result[1].kind = "Error" /\ Leftover.result[2].kind = "Error"
  /\ Leftover.result[1] # Leftover.result[2]
  /\ rpn.out = Return(Leftover.result[1])

\* the elements of a set's rows, rows by ascending row number
RECURSIVE RowsFlat(_)
RowsFlat(items) ==
  IF DOMAIN items = {} THEN <<>>
  ELSE LET r == SetMin(DOMAIN items)
       IN  items[r] \o RowsFlat([q \in DOMAIN items \ {r} |-> items[q]])

\* C5: when more than one value is left and none is an Error: all SingleCells
\* give a CellSet of exactly these values, all Scalars a ScalarSet of exactly
\* these values, and a first value that is a SingleCell or a Scalar with a
\* value of another kind after it gives a Value-Error, returned, not raised.
C5_FoldIntoSet ==
  rpn.stage = "evaluated" =>
    LET last == Leftover
        left == last.result
        kinds == {left[i].kind : i \in 1..Len(left)}
    IN  (last.fault = Idle /\ Len(left) > 1 /\ "Error" \notin kinds) =>
          /\ kinds = {"SingleCell"} =>
               /\ rpn.out.out = "return" /\ rpn.out.value.kind = "CellSet"
               /\ RowsFlat(rpn.out.value.items) = left
          /\ kinds = {"Simple"} =>
               /\ rpn.out.out = "return" /\ rpn.out.value.kind = "SimpleSet"
               /\ RowsFlat(rpn.out.value.items) = left
          /\ (left[1].kind \in {"SingleCell", "Simple"} /\ kinds # {left[1].kind}) =>
               /\ rpn.out.out = "return"
               /\ rpn.out.value.kind = "Error"
               /\ rpn.out.value.cls = "ValueErrorOperand"
               /\ string_value(rpn.out.value.cls) = "#VALUE!"

\* two scalars and then a cell are left: the fold returns the Value-Error
C5_Witness ==
  /\ rpn.stage = "evaluated"
  /\ Leftover.fault = Idle /\ Len(Leftover.result) = 3
  /\ Leftover.result[1].kind = "Simple" /\ Leftover.result[2].kind = "Simple"
  /\ Leftover.result[3].kind = "SingleCell"
  /\ rpn.out.out = "return" /\ rpn.out.value.kind = "Error"

----------------------------------------------------------------------------
(* The cursor of an Array (the base class of RPN): efc/utils.py            *)

\* Longest sequence the cursor is moved over.
MaxArrayLen == 4
\* Largest step handed to step_back.
MaxStep == 3

\* the tokens appended to the sequence the cursor moves over
ArrayTokens == {SimpleOperand(Num(1)), SimpleOperand(Num(2)), Operation("+", 2)}

\* the call made last on the sequence, its argument and what it gave
Called(op, n, res) == [op |-> op, n |-> n, res |-> res]

\* is_ended
is_ended(array, pos) == pos + 1 >= Len(array)

\* __next__: the new position and the element, or StopIteration; the model's
\* sequences start at 1, the code's lists at 0
array_next(array, pos) ==
  IF is_ended(array, pos) THEN [pos |-> pos, res |-> Raise("StopIteration")]
  ELSE [pos |-> pos + 1, res |-> Return(array[pos + 2])]

\* reset()
reset == -1

\* a step back that does not clamp
step_back_unclamped(pos, step) == pos - step

\* step_back(step): the new position
step_back(pos, step) == IF step > pos + 1 THEN reset ELSE pos - step

\* RPN(formula), with the record of the call made last
ArrayInit ==
  rpn = [stage |-> "built", array |-> <<>>, pos |-> -1, formula |-> FormulaText,
         ws_name |-> NoName, out |-> Idle, last |-> Called("init", 0, Idle)]

ArrayAppend ==
  /\ rpn.stage = "built" /\ Len(rpn.array) < MaxArrayLen
  /\ \E v \in ArrayTokens :
       rpn' = [rpn EXCEPT !.array = Append(@, v), !.last = Called("append", 0, Idle)]
  /\ UNCHANGED <<codec, rng, sumst, setop, cell>>

\* next()
ArrayNextElement ==
  /\ rpn.stage = "built"
  /\ LET r == array_next(rpn.array, rpn.pos)
     IN  rpn' = [rpn EXCEPT !.pos = r.pos, !.last = Called("next", 0, r.res)]
  /\ UNCHANGED <<codec, rng, sumst, setop, cell>>

ArrayReset ==
  /\ rpn.stage = "built"
  /\ rpn' = [rpn EXCEPT !.pos = reset, !.last = Called("reset", 0, Idle)]
  /\ UNCHANGED <<codec, rng, sumst, setop, cell>>

ArrayStepBack ==
  /\ rpn.stage = "built"
  /\ \E step \in 0..MaxStep :
       rpn' = [rpn EXCEPT !.pos = step_back(rpn.pos, step),
                          !.last = Called("step_back", step, Idle)]
  /\ UNCHANGED <<codec, rng, sumst, setop, cell>>

ArrayStart == ArrayInit /\ codec = Idle /\ rng = Idle /\ sumst = Idle /\ setop = Idle /\ cell = Idle

ArrayNext == ArrayAppend \/ ArrayNextElement \/ ArrayReset \/ ArrayStepBack \/ Calc

\* sequences built by append, navigated by next, reset and step_back, and
\* evaluated by calc
SpecArray == ArrayStart /\ [][ArrayNext]_vars

\* C11 (state part): the position stays between -1 and length - 1.
C11_CursorInRange == rpn.pos >= -1 /\ rpn.pos <= Len(rpn.array) - 1

\* C11 (step part): step_back(n) from position p leaves the cursor at p - n
\* when p - n >= -1 and at -1 otherwise; next advances by one or fails at the
\* end without moving; reset, next and step_back leave the elements as they
\* are.
C11_CursorSteps ==
  [][(rpn.stage = "built" /\ rpn'.stage = "built") =>
       /\ rpn'.last.op = "step_back" =>
            /\ rpn'.pos = (IF rpn.pos - rpn'.last.n >= -1 THEN rpn.pos - rpn'.last.n ELSE -1)
            /\ rpn'.array = rpn.array
       /\ rpn'.last.op = "next" =>
            /\ rpn'.array = rpn.array
            /\ IF rpn.pos = Len(rpn.array) - 1
               THEN rpn'.pos = rpn.pos /\ rpn'.last.res = Raise("StopIteration")
               ELSE rpn'.pos = rpn.pos + 1 /\ rpn'.last.res = Return(rpn.array[rpn'.pos + 1])
       /\ rpn'.last.op = "reset" => rpn'.pos = -1 /\ rpn'.array = rpn.array]_vars

\* C11: both parts, over every sequence of append, next, reset and step_back
C11_CursorClamped == []C11_CursorInRange /\ C11_CursorSteps

\* step_back(3) was called at the second of three elements and left the cursor
\* before the first one
C11_Witness ==
  /\ rpn.stage = "built" /\ Len(rpn.array) = 3
  /\ rpn.last = Called("step_back", 3, Idle) /\ rpn.pos = -1

----------------------------------------------------------------------------
(* One NamedRangeOperand instance: NamedRangeOperand.value and the data      *)
(* source behind it.                                                         *)

\* Largest number of accesses of one named range's value.
MaxNamedAccesses == 2

\* NamedRangeOperand(name, ws_name, source)
NamedRangeOperand(name, ws_name) ==
  [kind |-> "NamedRange", name |-> name, ws_name |-> ws_name]

\* NamedRangeNotExist(name, ws_name)
NamedRangeNotExist(name, ws_name) ==
  [kind |-> "Error", cls |-> "NamedRangeNotExist", ws_name |-> ws_name,
   formula |-> NoName, name |-> name]

\* the names of the operands and the worksheets they are looked up in
RangeNames == {"total", "rate"}
NamedSheets == {"Sheet1", "Gone"}

\* the data source's answers: the worksheets that exist, the names that are
\* registered (name and worksheet) and the cells of a name
NamedSources ==
  {[sheets |-> sh, names |-> ns, cells |-> cs] :
     sh \in SUBSET NamedSheets,
     ns \in SUBSET {<<"total", "Sheet1">>, <<"total", "Gone">>, <<"rate", "Sheet1">>},
     cs \in {<<SingleCellOperand(1, 1, "Sheet1")>>,
             <<SingleCellOperand(1, 1, "Sheet1"), SingleCellOperand(2, 1, "Sheet1")>>}}

\* source.is_named_range_exists(name, ws_name)
is_named_range_exists(src, name, ws_name) == <<name, ws_name>> \in src.names

\* source.named_range_to_cells(name, ws_name)
named_range_to_cells(src, name, ws_name) == src.cells

\* NamedRangeOperand.address_to_value
named_address_to_value(inst, src) == named_range_to_cells(src, inst.name, inst.ws_name)

\* a value that looks the name up before the worksheet
named_value_name_first(inst, src) ==
  IF ~is_named_range_exists(src, inst.name, inst.ws_name)
  THEN [res |-> RaiseError(NamedRangeNotExist(inst.name, inst.ws_name)),
        asked |-> <<"is_named_range_exists">>]
  ELSE IF ~is_ws_exists(src, inst.ws_name)
  THEN [res |-> RaiseError(WorksheetNotExist(inst.ws_name)),
        asked |-> <<"is_named_range_exists", "is_ws_exists">>]
  ELSE [res |-> Return(named_address_to_value(inst, src)),
        asked |-> <<"is_named_range_exists", "is_ws_exists", "named_range_to_cells">>]

\* NamedRangeOperand.value, the function the cached_property wraps: what it
\* returns or raises, and the questions it asked the data source, in order
named_value(inst, src) ==
  IF ~is_ws_exists(src, inst.ws_name)
  THEN [res |-> RaiseError(WorksheetNotExist(inst.ws_name)),
        asked |-> <<"is_ws_exists">>]
  ELSE IF ~is_named_range_exists(src, inst.name, inst.ws_name)
  THEN [res |-> RaiseError(NamedRangeNotExist(inst.name, inst.ws_name)),
        asked |-> <<"is_ws_exists", "is_named_range_exists">>]
  ELSE [res |-> Return(named_address_to_value(inst, src)),
        asked |-> <<"is_ws_exists", "is_named_range_exists", "named_range_to_cells">>]

\* inst.value through the cached_property: the instance entry when there is
\* one, else the function, whose returned value is stored
get_named_value(inst, src) ==
  IF inst.has_value
  THEN [inst |-> inst, res |-> Return(inst.value), asked |-> <<>>]
  ELSE LET r == named_value(inst, src)
       IN  [inst |-> IF r.res.out = "return"
                     THEN [inst EXCEPT !.has_value = TRUE, !.value = r.res.value]
                     ELSE inst,
            res |-> r.res, asked |-> r.asked]

NamedInit ==
  \E src \in NamedSources, name \in RangeNames, ws_name \in NamedSheets :
    cell = [stage |-> "named",
            inst |-> [kind |-> "NamedRange", name |-> name, ws_name |-> ws_name,
                      has_value |-> FALSE, value |-> <<>>],
            src |-> src, accesses |-> 0, asked |-> <<>>,
            last |-> Return(<<>>)]

\* one access of the operand's value
GetNamedValue ==
  /\ cell.stage = "named" /\ cell.accesses < MaxNamedAccesses
  /\ LET g == get_named_value(cell.inst, cell.src)
     IN  cell' = [cell EXCEPT !.inst = g.inst, !.last = g.res, !.asked = g.asked,
                              !.accesses = @ + 1]
  /\ UNCHANGED <<codec, rng, sumst, setop, rpn>>

\* the data source changes between two accesses
NamedSourceChanges ==
  /\ cell.stage = "named" /\ cell.accesses < MaxNamedAccesses
  /\ \E src \in NamedSources \ {cell.src} : cell' = [cell EXCEPT !.src = src]
  /\ UNCHANGED <<codec, rng, sumst, setop, rpn>>

NamedNext == GetNamedValue \/ NamedSourceChanges

NamedStart == NamedInit /\ codec = Idle /\ rng = Idle /\ sumst = Idle /\ setop = Idle /\ rpn = Idle

SpecNamed == NamedStart /\ [][NamedNext]_vars

\* C12: a resolution of a named range's value asks whether the worksheet
\* exists first and fails with the worksheet-missing error (#REF!) when it
\* does not; then it asks whether the name is registered in that worksheet and
\* fails with the named-range-missing error (#NAME?), carrying the name, when
\* it is not; it asks for the cells only after both answers were yes.
C12_NamedRangeChecksInOrder ==
  [][(/\ cell.stage = "named" /\ cell'.accesses = cell.accesses + 1
      /\ ~cell.inst.has_value) =>
       LET ws == cell.inst.ws_name \in cell.src.sheets
           nr == <<cell.inst.name, cell.inst.ws_name>> \in cell.src.names
           asked == cell'.asked
           last == cell'.last
       IN  /\ asked[1] = "is_ws_exists"
           /\ ~ws => /\ asked = <<"is_ws_exists">>
                     /\ last.out = "raise"
                     /\ last.error.cls = "WorksheetNotExist"
                     /\ string_value(last.error.cls) = "#REF!"
           /\ (ws /\ ~nr) =>
                     /\ asked = <<"is_ws_exists", "is_named_range_exists">>
                     /\ last.out = "raise"
                     /\ last.error.cls = "NamedRangeNotExist"
                     /\ string_value(last.error.cls) = "#NAME?"
                     /\ last.error.name = cell.inst.name
           /\ (ws /\ nr) =>
                     /\ asked = <<"is_ws_exists", "is_named_range_exists",
                                  "named_range_to_cells">>
                     /\ last = Return(cell.src.cells)
           /\ \A i \in 1..Len(asked) :
                asked[i] = "named_range_to_cells" => (i = 3 /\ ws /\ nr)]_vars

\* a name that is registered nowhere was looked for in a worksheet that does
\* not exist: the access failed with the worksheet-missing error
C12_Witness ==
  /\ cell.stage = "named" /\ cell.accesses = 1
  /\ cell.inst.ws_name \notin cell.src.sheets
  /\ cell.src.names = {}
  /\ cell.last.out = "raise" /\ cell.last.error.cls = "WorksheetNotExist"
  /\ cell.asked = <<"is_ws_exists">>

----------------------------------------------------------------------------
(* Errors flowing through operations *)

\* Longest postfix sequence of numbers, failing operands and operations.
MaxErrorTokens == 5

\* numbers, a cell of a worksheet that does not exist, an error operand and
\* two operations
ErrorTokens ==
  {SimpleOperand(Num(4)), SimpleOperand(Num(0)),
   SingleCellOperand(1, 1, "Gone"),
   ErrorOperand("FunctionNotSupported", NoName, NoName),
   Operation("/", 2), Operation("+", 2)}

AppendError == \E v \in ErrorTokens : append(v, MaxErrorTokens)

ErrorsNext == AppendError \/ CalcAnySheet

\* evaluations of sequences with operands whose value raises a typed error
SpecErrors == RpnStart /\ [][ErrorsNext]_vars

\* TRUE when resolving the operand raises a typed error: an error operand, or
\* a cell of a worksheet the data source does not have
RaisesError(x) ==
  \/ x.kind = "Error"
  \/ x.kind = "SingleCell" /\ x.ws_name \notin CalcSource.sheets

\* TRUE when v is the error that resolving x raises, whatever formula and
\* worksheet name it was given afterwards
IsErrorOf(v, x) ==
  /\ v.kind = "Error"
  /\ IF x.kind = "Error"
     THEN [v EXCEPT !.formula = NoName, !.ws_name = NoName]
            = [x EXCEPT !.formula = NoName, !.ws_name = NoName]
     ELSE v.cls = "WorksheetNotExist" /\ v.ws_name = x.ws_name

\* C13: an operation one of whose arguments raises a typed error when it is
\* resolved does not end the evaluation: the error of the first such argument
\* is pushed as the operation's result in place of the arguments; an error
\* made by an earlier operation is therefore the result of a later operation
\* that consumes it, and is returned when it is the only value left.
\* `E 4 + 0 /` returns E and `4 0 / 4 +` returns the division error.
C13_ErrorBecomesResult ==
  rpn.stage = "evaluated" =>
   LET tr == Trace
       len == Len(rpn.array)
   IN
    /\ \A i \in 1..len :
         LET tok == rpn.array[i]
             before == tr[i]
             after == tr[i + 1]
             n == Len(before.result)
         IN  (/\ before.fault = Idle /\ tok.kind = "Operation" /\ n >= 2
              /\ \E j \in {n - 1, n} : RaisesError(before.result[j])) =>
               LET x == IF RaisesError(before.result[n - 1])
                        THEN before.result[n - 1] ELSE before.result[n]
               IN  /\ after.fault = Idle
                   /\ after.result[n - 1].kind = "Error"
                   /\ IsErrorOf(after.result[n - 1], x)
                   /\ SubSeq(after.result, 1, n - 2) = SubSeq(before.result, 1, n - 2)
                   /\ Len(after.result) = n - 1
                   /\ (i = len /\ n = 2) =>
                        /\ rpn.out.out = "return"
                        /\ IsErrorOf(rpn.out.value, x)
    /\ len = 5 =>
         /\ rpn.array = <<ErrorOperand("FunctionNotSupported", NoName, NoName),
                          Lit(4), Operation("+", 2), Lit(0), Operation("/", 2)>>
              => /\ rpn.out.out = "return"
                 /\ rpn.out.value.cls = "FunctionNotSupported"
         /\ rpn.array = <<Lit(4), Lit(0), Operation("/", 2), Lit(4), Operation("+", 2)>>
              => /\ rpn.out.out = "return"
                 /\ rpn.out.value.cls = "ZeroDivisionErrorOperand"

\* the error of a cell whose worksheet does not exist went through two
\* operations and was returned
C13_Witness ==
  /\ rpn.stage = "evaluated"
  /\ rpn.array = <<Lit(4), SingleCellOperand(1, 1, "Gone"), Operation("+", 2),
                   Lit(0), Operation("/", 2)>>
  /\ rpn.out.out = "return"
  /\ rpn.out.value.cls = "WorksheetNotExist"

----------------------------------------------------------------------------
(* Faults of an operation's function *)

\* how resolving an operand to a number ends: "none" for a number, "error"
\* for a typed error, "coercion" for text that is no number (ValueError) and
\* "other" for an operand without a number accessor (AttributeError)
FaultKind(x) ==
  CASE x.kind = "Error" -> "error"
    [] x.kind = "SingleCell" -> IF x.ws_name \in CalcSource.sheets THEN "none" ELSE "error"
    [] x.kind = "Simple" -> IF x.value.t = "str" /\ x.value.s \notin {"", "7", "0.5"}
                            THEN "coercion" ELSE "none"
    [] OTHER -> "other"

\* the fault of the first argument that has one
FirstFault(a, b) == IF FaultKind(a) # "none" THEN FaultKind(a) ELSE FaultKind(b)

\* C14: a type/value coercion fault of an operation becomes the Value-Error
\* (#VALUE!), pushed as the operation's result; a fault that is neither a
\* typed error, a type/value fault nor a division by zero is not converted:
\* it leaves calc, which returns nothing.
C14_CoercionFaultIsValueError ==
  rpn.stage = "evaluated" =>
   LET tr == Trace
   IN
    \A i \in 1..Len(rpn.array) :
      LET tok == rpn.array[i]
          before == tr[i]
          after == tr[i + 1]
          n == Len(before.result)
      IN  (before.fault = Idle /\ tok.kind = "Operation" /\ n >= 2) =>
            LET f == FirstFault(before.result[n - 1], before.result[n])
            IN  /\ f = "coercion" =>
                     /\ after.fault = Idle
                     /\ Len(after.result) = n - 1
                     /\ after.result[n - 1].kind = "Error"
                     /\ after.result[n - 1].cls = "ValueErrorOperand"
                     /\ string_value(after.result[n - 1].cls) = "#VALUE!"
                /\ f = "other" =>
                     /\ after.fault # Idle
                     /\ rpn.out.out = "raise"
                     /\ rpn.out.error = Idle
                     /\ rpn.out.exc \notin {"TypeError", "ValueError", "ZeroDivisionError",
                                            "OperandsMissing"}

\* text that is no number was added to 4 and the Value-Error came back
C14_Witness ==
  /\ rpn.stage = "evaluated"
  /\ rpn.array = <<SimpleOperand(Text("abc")), Lit(4), Operation("+", 2)>>
  /\ rpn.out.out = "return"
  /\ rpn.out.value.cls = "ValueErrorOperand"

----------------------------------------------------------------------------
(* The formula and the worksheet name of the errors calc makes *)

\* TRUE when the error e carries the formula of the evaluated sequence and a
\* worksheet name: its own when it had one (had), the evaluation's otherwise
IsStamped(e, had) ==
  /\ e.formula = rpn.formula
  /\ e.ws_name = (IF had # NoName THEN had ELSE rpn.ws_name)

\* the worksheet name the error raised for the arguments a and b has when it
\* is raised: that of the error operand or of the cell's missing worksheet
RaisedName(a, b) ==
  IF FaultKind(a) = "error" THEN a.ws_name
  ELSE IF FaultKind(a) = "none" /\ FaultKind(b) = "error" THEN b.ws_name
  ELSE NoName

\* C15: every error made during an evaluation, by an operation or by the
\* fold's failed set construction, carries the formula text of the sequence
\* when calc returns it, and the worksheet name of the evaluation when it had
\* none; an error that had a worksheet name keeps it.
C15_ErrorsAreStamped ==
  rpn.stage = "evaluated" =>
   LET tr == Trace
       len == Len(rpn.array)
       last == tr[len + 1]
       left == last.result
   IN
    /\ \A i \in 1..len :
         LET tok == rpn.array[i]
             before == tr[i]
             after == tr[i + 1]
             n == Len(before.result)
         IN  (/\ before.fault = Idle /\ tok.kind = "Operation" /\ n >= 2
              /\ after.fault = Idle /\ after.result[n - 1].kind = "Error") =>
               /\ IsStamped(after.result[n - 1],
                            RaisedName(before.result[n - 1], before.result[n]))
               /\ (i = len /\ n = 2) =>
                    IsStamped(rpn.out.value,
                              RaisedName(before.result[n - 1], before.result[n]))
    /\ (/\ last.fault = Idle /\ Len(left) > 1
        /\ \A j \in 1..Len(left) : left[j].kind # "Error"
        /\ rpn.out.out = "return" /\ rpn.out.value.kind = "Error") =>
          IsStamped(rpn.out.value, NoName)

----------------------------------------------------------------------------
(* The rows of the set the fold builds *)

\* TRUE when the evaluation folded more than one leftover value, all cells or
\* all scalars, into a set
FoldedIntoSet ==
  /\ rpn.stage = "evaluated"
  /\ Leftover.fault = Idle /\ Len(Leftover.result) > 1
  /\ \/ \A i \in 1..Len(Leftover.result) : Leftover.result[i].kind = "SingleCell"
     \/ \A i \in 1..Len(Leftover.result) : Leftover.result[i].kind = "Simple"

\* C16 as stated: each of the k leftover values is a row of its own, k rows of
\* one element each, in stack order.
C16_Original ==
  FoldedIntoSet =>
    LET left == Leftover.result
        items == rpn.out.value.items
    IN  /\ rpn.out.out = "return"
        /\ rpn.out.value.kind \in {"CellSet", "SimpleSet"}
        /\ Cardinality(DOMAIN items) = Len(left)
        /\ \A i \in 1..Len(left) : i \in DOMAIN items /\ items[i] = <<left[i]>>

\* C16 (amended): the k leftover values are added together as one new row:
\* the set has the single row 1, which holds the k values in stack order.
C16_FoldAddsOneRow ==
  FoldedIntoSet =>
    LET left == Leftover.result
        items == rpn.out.value.items
    IN  /\ rpn.out.out = "return"
        /\ rpn.out.value.kind
             = (IF left[1].kind = "SingleCell" THEN "CellSet" ELSE "SimpleSet")
        /\ DOMAIN items = {1}
        /\ items[1] = left

\* three cells were left and folded into a cell set
C16_Witness ==
  /\ FoldedIntoSet
  /\ Len(Leftover.result) = 3
  /\ rpn.out.out = "return" /\ rpn.out.value.kind = "CellSet"
  /\ Len(rpn.out.value.items[1]) = 3

----------------------------------------------------------------------------
(* Iterating a set: SetOperand.get_iter                                      *)

\* Largest number of add calls made on a set before it is iterated.
MaxIterCalls == 3

\* iteration with the rows in descending order of their numbers
RECURSIVE set_get_iter_descending(_)
set_get_iter_descending(items) ==
  IF DOMAIN items = {} THEN <<>>
  ELSE LET r == SetMax(DOMAIN items)
       IN  items[r] \o set_get_iter_descending([q \in DOMAIN items \ {r} |-> items[q]])

\* get_iter(): for r in sorted(self._items.keys()): for item in self._items[r]
RECURSIVE set_get_iter(_)
set_get_iter(items) ==
  IF DOMAIN items = {} THEN <<>>
  ELSE LET r == SetMin(DOMAIN items)
       IN  items[r] \o set_get_iter([q \in DOMAIN items \ {r} |-> items[q]])

\* the operands added to the iterated sets, each set of its own kind
IterElements(set_kind) ==
  IF set_kind = "CellSet"
  THEN {SingleCellOperand(1, 1, "Sheet1"), SingleCellOperand(2, 1, "Sheet1")}
  ELSE {SimpleOperand(Num(1)), SimpleOperand(Num(2))}

\* the lists handed to add_many and add_row: empty, of one and of two operands
IterLists(set_kind) ==
  IF set_kind = "CellSet"
  THEN {<<>>, <<SingleCellOperand(2, 1, "Sheet1")>>,
        <<SingleCellOperand(2, 1, "Sheet1"), SingleCellOperand(1, 1, "Sheet1")>>}
  ELSE {<<>>, <<SimpleOperand(Num(2))>>, <<SimpleOperand(Num(2)), SimpleOperand(Num(1))>>}

\* a set, the record of what was added to which row, call by call, and what
\* iterating it gave
IterInit ==
  \E k \in {"CellSet", "SimpleSet"} :
    setop = [stage |-> "adding", set_kind |-> k, items |-> EmptyRows,
             added |-> <<>>, yielded |-> <<>>]

\* a call that returned: the rows after it, and the row and operands it added
Added(res, row, new) ==
  /\ res.raised = ""
  /\ setop' = [setop EXCEPT !.items = res.items,
                            !.added = Append(@, [row |-> row, new |-> new])]

IterAddCell ==
  /\ setop.stage = "adding" /\ Len(setop.added) < MaxIterCalls
  /\ \E item \in IterElements(setop.set_kind), row \in SetRows :
       Added(add_cell(setop.set_kind, setop.items, item, row), row, <<item>>)
  /\ UNCHANGED <<codec, rng, sumst, cell, rpn>>

IterAddMany ==
  /\ setop.stage = "adding" /\ Len(setop.added) < MaxIterCalls
  /\ \E items \in IterLists(setop.set_kind), row \in SetRows :
       Added(add_many(setop.set_kind, setop.items, items, row), row, items)
  /\ UNCHANGED <<codec, rng, sumst, cell, rpn>>

\* add_row(items): the row it picks is the one that differs afterwards, or
\* the new empty one
IterAddRow ==
  /\ setop.stage = "adding" /\ Len(setop.added) < MaxIterCalls
  /\ \E items \in IterLists(setop.set_kind) :
       LET res == add_row(setop.set_kind, setop.items, items)
       IN  Added(res, CHOOSE r \in DOMAIN res.items : r \notin DOMAIN setop.items, items)
  /\ UNCHANGED <<codec, rng, sumst, cell, rpn>>

\* list(set): one full iteration
IterateSet ==
  /\ setop.stage = "adding"
  /\ setop' = [setop EXCEPT !.stage = "iterated", !.yielded = set_get_iter(setop.items)]
  /\ UNCHANGED <<codec, rng, sumst, cell, rpn>>

IterNext == IterAddCell \/ IterAddMany \/ IterAddRow \/ IterateSet

IterStart == IterInit /\ codec = Idle /\ rng = Idle /\ sumst = Idle /\ cell = Idle /\ rpn = Idle

\* sets built by add_cell, add_many and add_row and then iterated
SpecIter == IterStart /\ [][IterNext]_vars

\* the operands added to row r, in the order of the calls
RECURSIVE AddedTo(_, _)
AddedTo(added, r) ==
  IF added = <<>> THEN <<>>
  ELSE (IF Head(added).row = r THEN Head(added).new ELSE <<>>) \o AddedTo(Tail(added), r)

\* the rows in the order in which the calls made them
RECURSIVE RowsAsInserted(_, _)
RowsAsInserted(added, seen) ==
  IF added = <<>> THEN <<>>
  ELSE IF Head(added).row \in seen THEN RowsAsInserted(Tail(added), seen)
  ELSE <<Head(added).row>> \o RowsAsInserted(Tail(added), seen \cup {Head(added).row})

\* the rows by ascending row number
RECURSIVE RowsAscending(_)
RowsAscending(S) ==
  IF S = {} THEN <<>>
  ELSE <<SetMin(S)>> \o RowsAscending(S \ {SetMin(S)})

\* what was added, row after row in the given order of the rows
RECURSIVE InRowOrder(_, _)
InRowOrder(added, rows) ==
  IF rows = <<>> THEN <<>>
  ELSE AddedTo(added, Head(rows)) \o InRowOrder(added, Tail(rows))

\* C17 as stated: iterating yields every added element once, the rows in the
\* order in which they were inserted, the elements of a row in the order in
\* which they were added to it.
C17_Original ==
  setop.stage = "iterated" =>
    setop.yielded = InRowOrder(setop.added, RowsAsInserted(setop.added, {}))

\* C17 (amended): iterating yields every added element once, the rows in
\* ascending order of their row numbers, the elements of a row in the order
\* in which they were added to it.
C17_IterationByRowNumber ==
  setop.stage = "iterated" =>
    /\ setop.yielded
         = InRowOrder(setop.added, RowsAscending({setop.added[i].row : i \in 1..Len(setop.added)}))
    /\ Len(setop.yielded) = Len(Concat([i \in 1..Len(setop.added) |-> setop.added[i].new]))

\* row 2 was filled before row 0, and the iteration gave row 0 first
C17_Witness ==
  /\ setop.stage = "iterated"
  /\ Len(setop.added) = 3
  /\ setop.added[1].row = 2 /\ setop.added[1].new # <<>>
  /\ setop.added[2].row = 0 /\ setop.added[2].new # <<>>
  /\ setop.yielded = setop.added[2].new \o setop.added[1].new \o setop.added[3].new

----------------------------------------------------------------------------
(* Cloning operands: __deepcopy__ of each operand class, and copy.deepcopy's *)
(* default for the classes that define none.                                  *)

\* Largest number of value accesses of the original and of the clone.
MaxCloneAccesses == 2

\* RPNOperand(rpn, ws_name, source)
RPNOperand(tokens, formula, ws_name) ==
  [kind |-> "RPN", rpn |-> tokens, formula |-> formula, ws_name |-> ws_name]

\* an operand instance: its class, the fields it was constructed from and
\* the entry a cached_property left in its __dict__, if any
Instance(kind, fields) == [kind |-> kind, fields |-> fields, memo |-> Idle]

\* the data sources: one filled cell, one named range, a sheet of one or two
\* rows; and a source without the worksheet
CloneSources ==
  {[sheets |-> {"Sheet1"}, val |-> [a \in {<<1, 1>>} |-> Num(1)],
    names |-> {<<"total", "Sheet1">>}, cells |-> <<SingleCellOperand(1, 1, "Sheet1")>>,
    min_row |-> 1, max_row |-> 1, min_column |-> 1, max_column |-> 1],
   [sheets |-> {"Sheet1"}, val |-> [a \in {<<1, 1>>} |-> Num(2)],
    names |-> {<<"total", "Sheet1">>},
    cells |-> <<SingleCellOperand(1, 1, "Sheet1"), SingleCellOperand(2, 1, "Sheet1")>>,
    min_row |-> 1, max_row |-> 2, min_column |-> 1, max_column |-> 1],
   [sheets |-> {}, val |-> [a \in {<<1, 1>>} |-> Blank],
    names |-> {}, cells |-> <<>>,
    min_row |-> 1, max_row |-> 1, min_column |-> 1, max_column |-> 1]}

\* one operand of each class
CloneOperands ==
  {Instance("Simple", SimpleOperand(Num(4))),
   Instance("SingleCell", SingleCellOperand(1, 1, "Sheet1")),
   Instance("CellRange", CellRangeOperand(1, 1, None, 1, "Sheet1")),
   Instance("NamedRange", NamedRangeOperand("total", "Sheet1")),
   Instance("CellSet", [kind |-> "CellSet", items |-> EmptyRows]),
   Instance("SimpleSet", [kind |-> "SimpleSet", items |-> EmptyRows]),
   Instance("RPN", RPNOperand(<<SingleCellOperand(1, 1, "Sheet1"), SimpleOperand(Num(1)),
                                Operation("+", 2)>>, "=A1+1", "Sheet1"))}

\* the function behind the value of each class: SimpleOperand.value (a plain
\* attribute), CellsOperand.value, NamedRangeOperand.value, SetOperand.value
\* and RPNOperand.evaluated_value; for a range, the cells its iterator gives
resolve(inst, src) ==
  CASE inst.kind = "Simple" -> Return(inst.fields.value)
    [] inst.kind = "SingleCell" -> cells_value(inst.fields, src).res
    [] inst.kind = "CellRange" ->
         IF is_ws_exists(src, inst.fields.ws_name)
         THEN Return(get_iter(inst.fields, src))
         ELSE RaiseError(WorksheetNotExist(inst.fields.ws_name))
    [] inst.kind = "NamedRange" -> named_value(inst.fields, src).res
    [] inst.kind \in {"CellSet", "SimpleSet"} -> Return(set_get_iter(inst.fields.items))
    [] inst.kind = "RPN" ->
         calc(inst.fields.rpn, inst.fields.formula, inst.fields.ws_name, src)
    [] inst.kind = "Error" -> RaiseError(inst.fields)

\* what the caller gets from the resolved entry: the entry itself, and for an
\* RPNOperand the value of the operand its formula evaluated to (__getattr__)
value_of(inst, r, src) ==
  IF inst.kind = "RPN" /\ r.out = "return" THEN operand_value(r.value, src) ELSE r

\* the cached_property stores in the instance what the function returned
store_value(inst, r, src) ==
  [inst |-> IF r.out = "return" /\ inst.kind \notin {"Simple", "Error"}
            THEN [inst EXCEPT !.memo = [v |-> r.value]] ELSE inst,
   res |-> value_of(inst, r, src)]

\* inst.value: the __dict__ entry when there is one, else the function, whose
\* result the cached_property stores when it returns
get_operand_value(inst, src) ==
  IF inst.memo # Idle
  THEN [inst |-> inst, res |-> value_of(inst, Return(inst.memo.v), src)]
  ELSE store_value(inst, resolve(inst, src), src)

\* __deepcopy__ of an Operand the evaluated value of an RPNOperand can be
copy_of_result(x) ==
  IF x.kind = "Simple" THEN Instance("Simple", x)
  ELSE Instance("Error", ErrorOperand(x.cls, x.ws_name, NoName))

\* the copy of an RPNOperand whose evaluated_value gave g
copy_of_evaluated(g) == [orig |-> g.inst, clone |-> copy_of_result(g.inst.memo.v)]

\* copy.deepcopy(inst): the original afterwards and the copy.  The classes
\* with a __deepcopy__ build a new instance from the constructor fields; the
\* sets define none and get the default copy of their __dict__, the entry of
\* the cached_property included; an RPNOperand answers the lookup of
\* __deepcopy__ through __getattr__, which evaluates the formula and hands out
\* the method of the operand it evaluated to
deepcopy(inst, src) ==
  CASE inst.kind \in {"Simple", "SingleCell", "CellRange", "NamedRange", "Error"} ->
         [orig |-> inst, clone |-> [inst EXCEPT !.memo = Idle]]
    [] inst.kind \in {"CellSet", "SimpleSet"} ->
         [orig |-> inst, clone |-> inst]
    [] inst.kind = "RPN" -> copy_of_evaluated(get_operand_value(inst, src))

\* the elements added to a set between its resolution and its cloning
CloneElements(kind) ==
  IF kind = "CellSet" THEN {SingleCellOperand(1, 1, "Sheet1")} ELSE {SimpleOperand(Num(1))}

CloneInit ==
  \E inst \in CloneOperands, src \in CloneSources :
    cell = [stage |-> "clone", orig |-> inst, clone |-> Idle, src |-> src,
            accesses |-> 0, was_resolved |-> FALSE, clone_accesses |-> 0,
            last |-> Idle]

\* the state after an access of the original that gave g
orig_accessed(c, g) ==
  [c EXCEPT !.orig = g.inst, !.accesses = @ + 1,
            !.was_resolved = @ \/ g.res.out = "return"]

\* one access of the original's value
GetOrigValue ==
  /\ cell.stage = "clone" /\ cell.accesses < MaxCloneAccesses /\ cell.clone = Idle
  /\ cell' = orig_accessed(cell, get_operand_value(cell.orig, cell.src))
  /\ UNCHANGED <<codec, rng, sumst, setop, rpn>>

\* add_cell on the original, a set
CloneAddCell ==
  /\ cell.stage = "clone" /\ cell.orig.kind \in {"CellSet", "SimpleSet"}
  /\ cell.clone = Idle
  /\ Len(set_get_iter(cell.orig.fields.items)) < MaxCloneAccesses
  /\ \E item \in CloneElements(cell.orig.kind) :
       cell' = [cell EXCEPT !.orig.fields.items
                              = add_cell(cell.orig.kind, @, item, 0).items]
  /\ UNCHANGED <<codec, rng, sumst, setop, rpn>>

\* the data source changes
CloneSourceChanges ==
  /\ cell.stage = "clone" /\ cell.clone_accesses = 0
  /\ \E src \in CloneSources \ {cell.src} : cell' = [cell EXCEPT !.src = src]
  /\ UNCHANGED <<codec, rng, sumst, setop, rpn>>

\* the state after the copy d was made
cloned(c, d) == [c EXCEPT !.orig = d.orig, !.clone = d.clone]

\* copy.deepcopy(original)
Clone ==
  /\ cell.stage = "clone" /\ cell.clone = Idle
  /\ cell' = cloned(cell, deepcopy(cell.orig, cell.src))
  /\ UNCHANGED <<codec, rng, sumst, setop, rpn>>

\* the state after an access of the clone that gave g
clone_accessed(c, g) ==
  [c EXCEPT !.clone = g.inst, !.clone_accesses = @ + 1, !.last = g.res]

\* one access of the clone's value
GetCloneValue ==
  /\ cell.stage = "clone" /\ cell.clone # Idle
  /\ cell.clone_accesses < MaxCloneAccesses
  /\ cell' = clone_accessed(cell, get_operand_value(cell.clone, cell.src))
  /\ UNCHANGED <<codec, rng, sumst, setop, rpn>>

CloneNext == GetOrigValue \/ CloneAddCell \/ CloneSourceChanges \/ Clone \/ GetCloneValue

CloneStart == CloneInit /\ codec = Idle /\ rng = Idle /\ sumst = Idle /\ setop = Idle /\ rpn = Idle

\* operands resolved, cloned, and the clones resolved
SpecClone == CloneStart /\ [][CloneNext]_vars

\* C18: cloning an operand of any class whose value has been resolved gives a
\* clone of the same class with the same identifying fields and no memoized
\* value, and the first access of the clone's value resolves again: it gives
\* what the data source, the set's rows or the sub-formula give at that time.
C18_CloneResolvesAgain ==
  [][cell.stage = "clone" =>
       /\ (cell.clone = Idle /\ cell'.clone # Idle /\ cell.was_resolved) =>
            /\ cell'.clone.kind = cell.orig.kind
            /\ cell'.clone.fields = cell.orig.fields
            /\ cell'.clone.memo = Idle
       /\ (/\ cell.clone # Idle /\ cell.was_resolved
           /\ cell.clone_accesses = 0 /\ cell'.clone_accesses = 1) =>
            LET fresh == Instance(cell.orig.kind, cell.orig.fields)
            IN  cell'.last = get_operand_value(fresh, cell.src).res]_vars

----------------------------------------------------------------------------
(* calc step by step, with an RPNOperand among the tokens: the list result   *)
(* and the iterator of `for token in self` are locals of the call, the       *)
(* cursor and the tokens belong to the RPN, the memoized evaluated_value to  *)
(* the RPNOperand.                                                           *)

\* Longest enclosing sequence.
MaxDeferredTokens == 3
\* Largest number of evaluations of the enclosing sequence.
MaxEvals == 2

\* the RPNOperand token of the enclosing sequence
Deferred == [kind |-> "RPN", name |-> "D"]

\* the tokens of the enclosing sequence
DeferredTokens == {SimpleOperand(Num(1)), Deferred, Operation("+", 2)}

\* the sequences of the RPNOperand: 4 2 / and 4 0 / return, 4 + raises
\* OperandsMissing
InnerSequences ==
  {<<SimpleOperand(Num(4)), SimpleOperand(Num(2)), Operation("/", 2)>>,
   <<SimpleOperand(Num(4)), SimpleOperand(Num(0)), Operation("/", 2)>>,
   <<SimpleOperand(Num(4)), Operation("+", 2)>>}

\* the cached_property stores in the instance what the function returned
store_evaluated(d, r) ==
  [d |-> IF r.out = "return" THEN [d EXCEPT !.memo = [v |-> r.value]] ELSE d,
   res |-> r, ran |-> 1]

\* an evaluated_value that is computed at every access and stored nowhere
get_evaluated_value_uncached(d, src) ==
  [d |-> d, res |-> calc(d.rpn, d.formula, d.ws_name, src), ran |-> 1]

\* operand.evaluated_value, a cached_property: the stored result, or
\* self.rpn.calc(ws_name=self.ws_name, source=self.source), stored when it
\* returns; ran counts the calls of calc
get_evaluated_value(d, src) ==
  IF d.memo # Idle THEN [d |-> d, res |-> Return(d.memo.v), ran |-> 0]
  ELSE store_evaluated(d, calc(d.rpn, d.formula, d.ws_name, src))

\* the account of the calls of calc made for the operand: runs, and returned
\* once a call has returned
accounted(g) ==
  [d |-> [g.d EXCEPT !.runs = @ + g.ran,
                     !.returned = @ \/ (g.ran = 1 /\ g.res.out = "return")],
   res |-> g.res]

\* an attribute of the RPNOperand read through __getattr__: the operand its
\* formula evaluated to stands for it
access(x, d, src) ==
  IF x.kind # "RPN" THEN [d |-> d, res |-> Return(x)]
  ELSE accounted(get_evaluated_value(d, src))

\* the function is called once both arguments are there
eval_both(token, ga, gb, src) ==
  IF gb.res.out = "raise" THEN [d |-> gb.d, r |-> gb.res, inner |-> TRUE]
  ELSE [d |-> gb.d, inner |-> FALSE,
        r |-> operation_eval(token, <<ga.res.value, gb.res.value>>, src)]

\* the second argument is resolved when the first one gave a number
eval_second(token, b, ga, da, src) ==
  IF da.out = "raise" THEN [d |-> ga.d, r |-> da, inner |-> FALSE]
  ELSE eval_both(token, ga, access(b, ga.d, src), src)

\* the first argument: an exception of the inner calc leaves the enclosing
\* one (inner)
eval_first(token, b, ga, src) ==
  IF ga.res.out = "raise" THEN [d |-> ga.d, r |-> ga.res, inner |-> TRUE]
  ELSE eval_second(token, b, ga, operand_digit(ga.res.value, src), src)

\* token.eval(a, b) with the arguments resolved one after the other
deferred_eval(token, a, b, d, src) == eval_first(token, b, access(a, d, src), src)

\* the except clauses, the stamp and the append for what eval gave
pushed(rest, e, c, formula, ws_name) ==
  IF ~e.inner /\ c.caught
  THEN [result |-> Append(rest, stamp(c.v, formula, ws_name)), fault |-> Idle, d |-> e.d]
  ELSE [result |-> rest, fault |-> e.r, d |-> e.d]

\* the try block around token.eval(*args)
tried(rest, e, formula, ws_name) == pushed(rest, e, catch_faults(e.r), formula, ws_name)

\* the body of the loop of calc for one token, the RPNOperand's state d
\* threaded through
deferred_token(result, token, d, formula, ws_name, src) ==
  IF is_operand_like(token)
  THEN [result |-> Append(result, token), fault |-> Idle, d |-> d]
  ELSE IF Len(result) < token.operands_count
  THEN [result |-> <<>>, fault |-> OperandsMissing(token.f_name, formula), d |-> d]
  ELSE tried(SubSeq(result, 1, Len(result) - 2),
             deferred_eval(token,
                           args_reverse(<<result[Len(result)], result[Len(result) - 1]>>)[1],
                           args_reverse(<<result[Len(result)], result[Len(result) - 1]>>)[2],
                           d, src),
             formula, ws_name)

\* an RPN, the locals of its running calc (result, it) and the RPNOperand
DeferredInit ==
  \E inner \in InnerSequences :
    rpn = [stage |-> "built", array |-> <<>>, pos |-> -1, formula |-> FormulaText,
           ws_name |-> "Sheet1", out |-> Idle, last |-> Called("init", 0, Idle),
           result |-> <<>>, it |-> 0, evals |-> 0,
           deferred |-> [rpn |-> inner, formula |-> "=D", ws_name |-> "Sheet1",
                         memo |-> Idle, runs |-> 0, returned |-> FALSE]]

DeferredAppend ==
  /\ rpn.stage = "built" /\ rpn.evals = 0 /\ Len(rpn.array) < MaxDeferredTokens
  /\ \E v \in DeferredTokens :
       rpn' = [rpn EXCEPT !.array = Append(@, v), !.last = Called("append", 0, Idle)]
  /\ UNCHANGED <<codec, rng, sumst, setop, cell>>

\* calc is entered: result = [], and __iter__ makes an iterator of the list
BeginCalc ==
  /\ rpn.stage = "built" /\ rpn.array # <<>> /\ rpn.evals < MaxEvals
  /\ rpn' = [rpn EXCEPT !.stage = "running", !.result = <<>>, !.it = 0, !.out = Idle]
  /\ UNCHANGED <<codec, rng, sumst, setop, cell>>

\* the RPN after one pass of the loop that gave s: the next token, or the
\* exception that ends the call
after_pass(r, s) ==
  IF s.fault = Idle
  THEN [r EXCEPT !.result = s.result, !.it = @ + 1, !.deferred = s.d]
  ELSE [r EXCEPT !.stage = "built", !.out = s.fault, !.result = <<>>,
                 !.it = 0, !.deferred = s.d, !.evals = @ + 1]

\* one pass of the loop
StepCalc ==
  /\ rpn.stage = "running" /\ rpn.it < Len(rpn.array)
  /\ rpn' = after_pass(rpn, deferred_token(rpn.result, rpn.array[rpn.it + 1], rpn.deferred,
                                            rpn.formula, rpn.ws_name, CalcSource))
  /\ UNCHANGED <<codec, rng, sumst, setop, cell>>

\* return self.handle_result(result, ws_name, source)
EndCalc ==
  /\ rpn.stage = "running" /\ rpn.it = Len(rpn.array)
  /\ rpn' = [rpn EXCEPT !.stage = "built", !.out = handle_result(rpn.result, rpn.ws_name),
                        !.result = <<>>, !.it = 0, !.evals = @ + 1]
  /\ UNCHANGED <<codec, rng, sumst, setop, cell>>

DeferredNext ==
  \/ DeferredAppend \/ ArrayNextElement \/ ArrayReset
  \/ BeginCalc \/ StepCalc \/ EndCalc

DeferredStart == DeferredInit /\ codec = Idle /\ rng = Idle /\ sumst = Idle /\ setop = Idle /\ cell = Idle

\* a sequence with an RPNOperand, navigated and evaluated up to twice
SpecDeferred == DeferredStart /\ [][DeferredNext]_vars

\* TRUE of the steps a running calc makes: entering, a pass of the loop,
\* returning or raising
CalcStep == rpn.stage = "running" \/ rpn'.stage = "running"

\* C19, the part that holds as stated: calc leaves the tokens and the cursor
\* of its sequence as they are, and a pass of the loop that resolves an
\* RPNOperand replaces the operation's two arguments by its one result, the
\* entries below untouched: the inner evaluation adds nothing to the
\* enclosing list and removes nothing from it.
C19_CalcIsLocal ==
  [][CalcStep =>
       /\ rpn'.array = rpn.array /\ rpn'.pos = rpn.pos
       /\ (rpn.stage = "running" /\ rpn'.stage = "running") =>
            LET tok == rpn.array[rpn.it + 1]
                n == Len(rpn.result)
            IN  IF tok.kind = "Operation"
                THEN /\ Len(rpn'.result) = n - 1
                     /\ SubSeq(rpn'.result, 1, n - 2) = SubSeq(rpn.result, 1, n - 2)
                     /\ rpn'.result[n - 1].kind \in {"Simple", "Error"}
                ELSE rpn'.result = Append(rpn.result, tok)]_vars

\* C19 as stated: the above, and the inner sequence runs once per operand.
C19_Original == C19_CalcIsLocal /\ [](rpn.deferred.runs <= 1)

\* C19 (amended): the above, and once an evaluation of the inner sequence has
\* returned it is not run again, later accesses reusing the memoized result;
\* an inner evaluation that raises memoizes nothing, and the next access runs
\* the sequence again.
C19_LocalAndMemoized ==
  /\ C19_CalcIsLocal
  /\ [][/\ rpn.deferred.returned =>
             /\ rpn'.deferred.runs = rpn.deferred.runs
             /\ rpn'.deferred.memo = rpn.deferred.memo
         /\ rpn'.deferred.returned <=> rpn'.deferred.memo # Idle
         /\ rpn'.deferred.runs <= rpn.deferred.runs + 1]_vars
  /\ [](rpn.deferred.returned => rpn.deferred.runs = 1)

\* D D + was evaluated twice with the cursor on its second token: the inner
\* sequence 4 2 / ran once and both evaluations returned 4
C19_Witness ==
  /\ rpn.stage = "built" /\ rpn.evals = 2 /\ rpn.pos = 1
  /\ rpn.array = <<Deferred, Deferred, Operation("+", 2)>>
  /\ rpn.deferred.runs = 1
  /\ rpn.out = Return(SimpleOperand(Num(4)))

----------------------------------------------------------------------------
(* The height of the stack during calc *)

\* the classes of the operand-like tokens of the sequences
OperandLikeKinds == {"Simple", "SingleCell", "CellRange", "Error"}

\* what the first i tokens make of the height: one up for an operand-like
\* token, arity - 1 down for an operation, nothing for any other token
RECURSIVE ExpectedHeight(_, _)
ExpectedHeight(tokens, i) ==
  IF i = 0 THEN 0
  ELSE ExpectedHeight(tokens, i - 1)
         + (CASE tokens[i].kind \in OperandLikeKinds -> 1
              [] tokens[i].kind = "Operation" -> 1 - tokens[i].operands_count
              [] OTHER -> 0)

\* C20: after each token that calc processed without leaving the loop, the
\* height of the stack is the number of operand-like tokens so far minus the
\* sum of arity - 1 over the operations so far: an operand-like token raises
\* it by one, an operation of arity k changes it by 1 - k whatever its
\* function returned or raised as an anticipated fault, and any other token
\* leaves the stack as it is.
C20_StackHeight ==
  rpn.stage = "evaluated" =>
   LET tr == Trace
   IN
    \A i \in 1..Len(rpn.array) :
      LET tok == rpn.array[i]
          before == tr[i]
          after == tr[i + 1]
      IN  (before.fault = Idle /\ after.fault = Idle) =>
            /\ Len(after.result) = ExpectedHeight(rpn.array, i)
            /\ tok.kind \in OperandLikeKinds =>
                 Len(after.result) = Len(before.result) + 1
            /\ tok.kind = "Operation" =>
                 Len(after.result) = Len(before.result) + 1 - tok.operands_count
            /\ tok.kind \notin OperandLikeKinds \cup {"Operation"} =>
                 after.result = before.result

\* a bracket was passed over and 4 0 / left its error as the one value
C20_Witness ==
  /\ rpn.stage = "evaluated"
  /\ rpn.array = <<Bracket, Lit(4), Lit(0), Operation("/", 2)>>
  /\ Len(Leftover.result) = 1
  /\ Leftover.result[1].kind = "Error"

====
